---------------------------- MODULE Spec2Model ----------------------------
(***************************************************************************)
(* TestGenius: the work-item-to-test-case pipeline.                        *)
(*                                                                         *)
(*   - the page component (src/src/app/page.tsx): its React state, the     *)
(*     generation handlers with the merge of a generated batch into the    *)
(*     collection, and the upload loop;                                    *)
(*   - the tracker client (src/src/lib/azure-devops-api.ts): the creation  *)
(*     and suite-link requests of one upload;                              *)
(*   - the generation flow (src/unnamed/part_002): generateTestCases.      *)
(*                                                                         *)
(* An await is a point where other handlers may run, so every handler is   *)
(* cut into one action per stretch between two awaits.                     *)
(***************************************************************************)
EXTENDS Integers, Sequences, FiniteSets, TLC

VARIABLES
    \* ---- React state of HomePage (page.tsx:47-66)
    credentials,                \* "none" | "incomplete" | "ok"
    userStory,                  \* NoStory or a story id
    isFetchingStory,
    processedDocuments,         \* sequence of [id, status] records
    testCases,                  \* sequence of TestCase records
    manualTestCaseCounter,
    isGeneratingTests,
    isUploadingTests,
    uploadingTestCaseIds,       \* sequence of test-case ids
    testPlanId,
    testSuiteId,
    isGenerateConfirmationOpen,
    \* ---- the running performAiGeneration call, if any
    gen,
    \* ---- the running handleUploadTestCases call, if any: its locals
    up,
    \* ---- the tracker: work items it holds, and the requests of the running pass
    workItems,
    requests,
    \* ---- one invocation of generateTestCases (part_002:203-271)
    g,
    \* ---- one call of a pure function of the pipeline: its arguments and
    \*      its result
    fn

uiVars == <<credentials, userStory, isFetchingStory, processedDocuments, testCases, manualTestCaseCounter,
            isGeneratingTests, isUploadingTests, uploadingTestCaseIds,
            testPlanId, testSuiteId, isGenerateConfirmationOpen>>
trackerVars == <<workItems, requests>>
vars == <<uiVars, gen, up, trackerVars, g, fn>>

-----------------------------------------------------------------------------
(* Bounds of the model *)

\* longest generated batch in the merge specification
MaxBatch == 2
\* manual test cases added in one session of the merge specification
MaxManual == 1
\* generation calls made in one behaviour of the merge specification
MaxGenerations == 2
\* test cases in the collection an upload behaviour starts from
MaxUploadCases == 3
\* work items the tracker accepts before it answers every creation with an error
MaxWorkItems == 3
\* the lines of a description
MaxLines == 3
\* the tags and pieces of text of an HTML input
MaxPieces == 4
\* manual test cases added between two fetches of the fetch specification
MaxSessionManual == 3

-----------------------------------------------------------------------------
(* Values *)

NoStory == 0
NoWorkItem == 0

\* A test-case id is its text up to and including the last "-" and the number
\* after it: "MANUAL-" + n is <<"MANUAL-", n>>, "TC-POS-2" is <<"TC-POS-", 2>>.
\* Two ids are the same string exactly when the pairs are equal.
ManualId(n) == <<"MANUAL-", n>>

\* tc.id.startsWith("MANUAL-")
StartsWithManual(id) == id[1] = "MANUAL-"

\* What the model service may put into the four content fields of an object.
FirstContent ==
    [title |-> "Login works", priority |-> "High",
     description |-> "1. Open page.\n2. Click button.",
     expectedResult |-> "Page loads."]

UpdatedContent ==
    [title |-> "Login works (updated)", priority |-> "Low",
     description |-> "", expectedResult |-> ""]

\* One element of validationResult.data: the schema's five fields and no other
\* (z.object strips unknown keys).
GeneratedCase(id, c) ==
    [id |-> id, title |-> c.title, priority |-> c.priority,
     description |-> c.description, expectedResult |-> c.expectedResult]

\* The objects a response may hold: an id with either content, an id no
\* earlier response used, and an id with the prefix of the manual entries
\* (the schema takes any string as an id).
GeneratedCases ==
    { GeneratedCase(<<"TC-POS-", 1>>, FirstContent),
      GeneratedCase(<<"TC-POS-", 1>>, UpdatedContent),
      GeneratedCase(<<"TC-POS-", 3>>, UpdatedContent),
      GeneratedCase(<<"MANUAL-", 1>>, UpdatedContent) }

RECURSIVE SeqsUpTo(_, _)
SeqsUpTo(S, n) ==
    IF n = 0 THEN { <<>> }
    ELSE LET shorter == SeqsUpTo(S, n - 1)
         IN  shorter \cup { Append(s, x) : s \in { t \in shorter : Len(t) = n - 1 }, x \in S }

\* the batches generateTestCases may return
Batches == SeqsUpTo(GeneratedCases, MaxBatch)


-----------------------------------------------------------------------------
(* The TestCase record (part_000:15-26) *)

NoUrl == <<>>
NoError == <<>>

\* { ...tc, uploadStatus: 'pending' } of a freshly generated object: the
\* optional fields azureDevOpsId, azureDevOpsUrl and uploadError are absent.
AsPending(newTc) ==
    [id |-> newTc.id, title |-> newTc.title, priority |-> newTc.priority,
     description |-> newTc.description, expectedResult |-> newTc.expectedResult,
     azureDevOpsId |-> NoWorkItem, azureDevOpsUrl |-> NoUrl,
     uploadStatus |-> "pending", uploadError |-> NoError]

\* the object handleAddManualTestCase builds (page.tsx:186-194)
NewManualTestCase(n) ==
    [id |-> ManualId(n), title |-> "Manual Test Case " \o ToString(n), priority |-> "Medium",
     description |-> "", expectedResult |-> "",
     azureDevOpsId |-> NoWorkItem, azureDevOpsUrl |-> NoUrl,
     uploadStatus |-> "pending", uploadError |-> NoError]

IsManual(tc) == StartsWithManual(tc.id)
IsNotManual(tc) == ~StartsWithManual(tc.id)

-----------------------------------------------------------------------------
(* The merge of a generated batch (page.tsx:145-161) *)

\* A JavaScript Map as the sequence of its [key, value] entries in insertion
\* order. Map.prototype.set keeps the place of a key it already holds and
\* appends a new key.
RECURSIVE MapIndexOf(_, _, _)
MapIndexOf(m, k, i) ==
    IF i > Len(m) THEN 0
    ELSE IF m[i].key = k THEN i
    ELSE MapIndexOf(m, k, i + 1)

\* A variant of MapSet that moves a key it already holds to the end, as a
\* delete followed by a set would.
MapSetAtEnd(m, k, v) ==
    LET NotK(e) == e.key # k
    IN  Append(SelectSeq(m, NotK), [key |-> k, value |-> v])

MapSet(m, k, v) ==
    LET i == MapIndexOf(m, k, 1)
    IN  IF i = 0 THEN Append(m, [key |-> k, value |-> v])
        ELSE [m EXCEPT ![i] = [key |-> k, value |-> v]]

\* new Map(existingAiCases.map(tc => [tc.id, tc]))
RECURSIVE MapOfCases(_, _)
MapOfCases(m, cases) ==
    IF cases = <<>> THEN m
    ELSE MapOfCases(MapSet(m, Head(cases).id, Head(cases)), Tail(cases))

\* A variant of the forEach below that gives an id the map already holds the
\* new content and leaves its upload fields as they are.
RECURSIVE SetGeneratedKeepingUpload(_, _)
SetGeneratedKeepingUpload(m, generated) ==
    IF generated = <<>> THEN m
    ELSE LET newTc == Head(generated)
             i == MapIndexOf(m, newTc.id, 1)
             value == IF i = 0 THEN AsPending(newTc)
                      ELSE [m[i].value EXCEPT !.title = newTc.title,
                                              !.priority = newTc.priority,
                                              !.description = newTc.description,
                                              !.expectedResult = newTc.expectedResult]
         IN  SetGeneratedKeepingUpload(MapSet(m, newTc.id, value), Tail(generated))

\* generated.forEach(newTc => aiCasesMap.set(newTc.id, {...newTc, uploadStatus: 'pending'}))
RECURSIVE SetGenerated(_, _)
SetGenerated(m, generated) ==
    IF generated = <<>> THEN m
    ELSE SetGenerated(MapSet(m, Head(generated).id, AsPending(Head(generated))),
                      Tail(generated))

\* Array.from(aiCasesMap.values())
MapValues(m) == [i \in 1..Len(m) |-> m[i].value]

\* generated.map(tc => ({ ...tc, uploadStatus: 'pending' }))
MapAsPending(generated) == [i \in 1..Len(generated) |-> AsPending(generated[i])]

\* A variant of the append updater that puts every entry into the map,
\* manual ones too.
MergeAppendAll(prev, generated) ==
    MapValues(SetGenerated(MapOfCases(<<>>, prev), generated))

\* the updater of append mode (page.tsx:146-155)
MergeAppend(prev, generated) ==
    LET manualCases == SelectSeq(prev, IsManual)
        existingAiCases == SelectSeq(prev, IsNotManual)
        aiCasesMap == SetGenerated(MapOfCases(<<>>, existingAiCases), generated)
        finalUniqueAiCases == MapValues(aiCasesMap)
    IN  manualCases \o finalUniqueAiCases

\* A variant of the override updater that keeps the generated entries
\* already uploaded.
MergeOverrideKeepingUploaded(prev, generated) ==
    LET KeptEntry(tc) == StartsWithManual(tc.id) \/ tc.uploadStatus = "success"
    IN  SelectSeq(prev, KeptEntry) \o MapAsPending(generated)

\* the updater of override mode (page.tsx:157-160)
MergeOverride(prev, generated) ==
    SelectSeq(prev, IsManual) \o MapAsPending(generated)

Merge(mode, prev, generated) ==
    IF mode = "append" THEN MergeAppend(prev, generated)
    ELSE MergeOverride(prev, generated)

-----------------------------------------------------------------------------
(* The tracker client: uploadTestCaseToAzureDevOps (azure-devops-api.ts:157-257) *)

\* the mapping with the lowest rank for the values it does not know
mapPriorityDefaultingToLow(priority) ==
    CASE priority = "High" -> 1
      [] priority = "Medium" -> 2
      [] priority = "Low" -> 3
      [] OTHER -> 3

\* mapPriorityToAzureDevOps (azure-devops-api.ts:92-99)
mapPriorityToAzureDevOps(priority) ==
    CASE priority = "High" -> 1
      [] priority = "Medium" -> 2
      [] priority = "Low" -> 3
      [] OTHER -> 2

\* The JSON-patch body of the creation request (azure-devops-api.ts:168-181):
\* System.Title is the id, ": " and the title; the Steps operation is generated from
\* the description and the expected result.
workItemBody(testCase) ==
    [title |-> <<testCase.id, testCase.title>>,
     priority |-> mapPriorityToAzureDevOps(testCase.priority),
     description |-> testCase.description,
     expectedResult |-> testCase.expectedResult]

\* the status of a request whose response has not arrived
NoResponse == 0

NoBody == [title |-> <<>>, priority |-> 0, description |-> "", expectedResult |-> ""]

\* a POST to .../_apis/wit/workitems/$Test%20Case (azure-devops-api.ts:183-190)
CreateRequest(testCase) ==
    [kind |-> "create", body |-> workItemBody(testCase), workItemId |-> NoWorkItem,
     planId |-> <<>>, suiteId |-> <<>>, status |-> NoResponse]

\* a POST to .../test/Plans/{planId}/suites/{suiteId}/testcases/{id}
\* (azure-devops-api.ts:219-227)
LinkRequest(workItemId, planId, suiteId) ==
    [kind |-> "link", body |-> NoBody, workItemId |-> workItemId,
     planId |-> planId, suiteId |-> suiteId, status |-> NoResponse]

\* response.ok
IsOk(status) == status >= 200 /\ status <= 299

\* what the tracker may answer to a creation request and to a link request
CreateStatuses == {200, 404}
LinkStatuses == {200, 404}

\* the hint appended to the message of a failed creation
\* (azure-devops-api.ts:204-212)
CreateHint(status) ==
    CASE status = 404 -> "org-or-project-incorrect"
      [] status = 401 -> "authentication-failed"
      [] status = 403 -> "authorization-failed"
      [] OTHER -> "check-network"

\* the hint appended to the message of a failed suite link
\* (azure-devops-api.ts:242-251)
LinkHint(status) ==
    CASE status = 404 -> "static-suite"
      [] status \in {401, 403} -> "permission"
      [] status = 400 -> "invalid-request"
      [] OTHER -> "ado-message"

\* the Error thrown when the creation failed (azure-devops-api.ts:214)
CreateError(testCase, status) ==
    <<"Failed to create test case work item", testCase.title, status, CreateHint(status)>>

\* the Error thrown when the link failed (azure-devops-api.ts:253)
LinkError(workItemId, planId, suiteId, status) ==
    <<"created, but failed to add to Test Suite", workItemId, suiteId, planId, status,
      LinkHint(status)>>

\* the web-view URL the upload loop builds (page.tsx:298)
WebUrl(workItemId) == <<"_workitems/edit/", workItemId>>

-----------------------------------------------------------------------------
(* Strings the code inspects are sequences of characters *)

\* the characters String.prototype.trim and the regex class \s remove
IsSpace(c) == c \in {" ", "\n", "\t"}

RECURSIVE TrimStart(_)
TrimStart(s) ==
    IF s # <<>> /\ IsSpace(Head(s)) THEN TrimStart(Tail(s)) ELSE s

RECURSIVE TrimEnd(_)
TrimEnd(s) ==
    IF s # <<>> /\ IsSpace(s[Len(s)]) THEN TrimEnd(SubSeq(s, 1, Len(s) - 1)) ELSE s

\* A variant of trim that removes nothing.
Untrimmed(s) == s

\* String.prototype.trim
Trim(s) == TrimEnd(TrimStart(s))

\* String.prototype.split with a one-character separator
RECURSIVE Split(_, _)
Split(s, sep) ==
    IF \E i \in 1..Len(s) : s[i] = sep
    THEN LET i == CHOOSE k \in 1..Len(s) :
                      s[k] = sep /\ \A j \in 1..(k - 1) : s[j] # sep
         IN <<SubSeq(s, 1, i - 1)>> \o Split(SubSeq(s, i + 1, Len(s)), sep)
    ELSE <<s>>

\* String.prototype.replace with a global one-character pattern
RECURSIVE ReplaceAll(_, _, _)
ReplaceAll(s, c, r) ==
    IF s = <<>> THEN <<>>
    ELSE (IF Head(s) = c THEN r ELSE <<Head(s)>>) \o ReplaceAll(Tail(s), c, r)

\* s has the characters of part at position i
OccursAt(part, s, i) ==
    /\ i >= 1
    /\ i + Len(part) - 1 <= Len(s)
    /\ SubSeq(s, i, i + Len(part) - 1) = part

\* String.prototype.includes
Contains(s, part) == \E i \in 1..(Len(s) + 1) : OccursAt(part, s, i)

\* the regex class \d
IsDigit(c) == c \in {"0", "1", "2", "3", "4", "5", "6", "7", "8", "9"}

RECURSIVE SkipDigits(_)
SkipDigits(s) ==
    IF s # <<>> /\ IsDigit(Head(s)) THEN SkipDigits(Tail(s)) ELSE s

-----------------------------------------------------------------------------
(* The step-XML serializer (azure-devops-api.ts:101-154).  The document is   *)
(* a sequence holding the steps element, or the empty sequence for the empty *)
(* string; the markup of the template literals is the structure of the       *)
(* records, and the two parameterizedString slots hold their characters.     *)

\* step.replace(/^\d+\.\s*/, '') (azure-devops-api.ts:129): one or more digits
\* and a period at the start, with the whitespace that follows, if any
StripStepMarker(step) ==
    LET rest == SkipDigits(step)
    IN IF step # <<>> /\ IsDigit(Head(step)) /\ rest # <<>> /\ Head(rest) = "."
       THEN TrimStart(Tail(rest))
       ELSE step

\* escapeHtml (azure-devops-api.ts:101-109): five replacements, in this order
escapeHtml(unsafe) ==
    ReplaceAll(
      ReplaceAll(
        ReplaceAll(
          ReplaceAll(
            ReplaceAll(unsafe, "&", <<"&", "a", "m", "p", ";">>),
            "<", <<"&", "l", "t", ";">>),
          ">", <<"&", "g", "t", ";">>),
        "\"", <<"&", "q", "u", "o", "t", ";">>),
      "'", <<"&", "#", "0", "3", "9", ";">>)

\* the markup a newline is replaced by
Br == <<"<", "b", "r", " ", "/", ">">>

\* prepareContentForXml (azure-devops-api.ts:111-119)
prepareContentForXml(text) ==
    LET trimmedText == Trim(text)
    IN IF trimmedText = <<>>
       THEN <<>>
       ELSE LET contentWithBreaks == ReplaceAll(trimmedText, "\n", Br)
            IN escapeHtml(contentWithBreaks)

\* the step lines of a description (azure-devops-api.ts:123, 126-130)
StepLines(description) ==
    LET cleanedDescription == Trim(description)
        lines == Split(cleanedDescription, "\n")
        steps == [i \in 1..Len(lines) |-> Trim(StripStepMarker(Trim(lines[i])))]
    IN SelectSeq(steps, LAMBDA step : Len(step) > 0)

\* the action of the step made up for an expected result without steps
VerifyExpectedResult == <<"Verify expected result.">>

\* the document without steps: the empty string
NoStepsXml == <<>>

\* generateStepsXml with the expected result on every step
generateStepsXmlResultOnEveryStep(description, overallExpectedResult) ==
    LET cleanedExpectedResult == Trim(overallExpectedResult)
        stepLines == StepLines(description)
        stepsArray == IF Len(stepLines) = 0 /\ Len(cleanedExpectedResult) > 0
                      THEN <<VerifyExpectedResult>>
                      ELSE stepLines
        stepXmlParts ==
            [index \in 1..Len(stepsArray) |->
                [id |-> index,
                 type |-> "ActionStep",
                 action |-> prepareContentForXml(stepsArray[index]),
                 expectedResult |-> prepareContentForXml(cleanedExpectedResult)]]
    IN IF Len(stepsArray) = 0
       THEN NoStepsXml
       ELSE <<[id |-> 0, last |-> Len(stepXmlParts), steps |-> stepXmlParts]>>

\* generateStepsXml (azure-devops-api.ts:122-154)
generateStepsXml(description, overallExpectedResult) ==
    LET cleanedExpectedResult == Trim(overallExpectedResult)
        stepLines == StepLines(description)
        stepsArray == IF Len(stepLines) = 0 /\ Len(cleanedExpectedResult) > 0
                      THEN <<VerifyExpectedResult>>
                      ELSE stepLines
        stepXmlParts ==
            [index \in 1..Len(stepsArray) |->
                LET stepNumber == index
                    stepExpectedResultText ==
                        IF stepNumber = Len(stepsArray) /\ Len(cleanedExpectedResult) > 0
                        THEN cleanedExpectedResult
                        ELSE <<>>
                IN [id |-> stepNumber,
                    type |-> "ActionStep",
                    action |-> prepareContentForXml(stepsArray[index]),
                    expectedResult |-> prepareContentForXml(stepExpectedResultText)]]
    IN IF Len(stepsArray) = 0
       THEN NoStepsXml
       ELSE <<[id |-> 0, last |-> Len(stepXmlParts), steps |-> stepXmlParts]>>

StepsPath == "/fields/Microsoft.VSTS.TCM.Steps"

\* the body with a steps operation whatever the document
workItemOperationsAlwaysWithSteps(testCase) ==
    LET stepsXml == generateStepsXml(testCase.description, testCase.expectedResult)
        body == workItemBody(testCase)
    IN <<[op |-> "add", path |-> "/fields/System.Title", value |-> body.title],
         [op |-> "add", path |-> "/fields/Microsoft.VSTS.Common.Priority",
          value |-> body.priority],
         [op |-> "add", path |-> StepsPath, value |-> stepsXml]>>

\* the operations of the JSON-patch body, one by one
\* (azure-devops-api.ts:167-181)
workItemOperations(testCase) ==
    LET stepsXml == generateStepsXml(testCase.description, testCase.expectedResult)
        body == workItemBody(testCase)
    IN <<[op |-> "add", path |-> "/fields/System.Title", value |-> body.title],
         [op |-> "add", path |-> "/fields/Microsoft.VSTS.Common.Priority", value |-> body.priority]>>
       \o (IF stepsXml # NoStepsXml
           THEN <<[op |-> "add", path |-> StepsPath, value |-> stepsXml]>>
           ELSE <<>>)

\* a call of a pure function: what it was called with and what it returned
IdleFn == [pc |-> "idle", name |-> "none", args |-> <<>>, result |-> <<>>]
Called(name, args) == [pc |-> "called", name |-> name, args |-> args, result |-> <<>>]

\* the body uploadTestCaseToAzureDevOps builds for a test case
\* (azure-devops-api.ts:167-181)
BuildWorkItemBody ==
    /\ fn.pc = "called"
    /\ fn.name = "workItemBody"
    /\ fn' = [fn EXCEPT !.pc = "returned",
                        !.result = workItemOperations(fn.args)]
    /\ UNCHANGED <<uiVars, gen, up, trackerVars, g>>

-----------------------------------------------------------------------------
(* The generation handlers of the page (page.tsx:122-183) *)

\* calls counts the calls of generateTestCases made so far, and story is the
\* story the input of the running call was made from
IdleGen == [pc |-> "idle", mode |-> "none", calls |-> 0, story |-> NoStory]

\* The main part of the page is rendered when credentials are set, and the
\* story cards, the test-case list and their buttons when a story is loaded
\* (page.tsx:473, 519, 612, 662). The confirmation dialog is modal.
PageIsInteractive ==
    /\ credentials # "none"
    /\ userStory # NoStory
    /\ ~isGenerateConfirmationOpen

\* the first stretch of performAiGeneration, up to the await of
\* generateTestCases (page.tsx:122-143)
PerformAiGenerationStart(mode) ==
    IF userStory = NoStory
    THEN UNCHANGED <<uiVars, gen>>
    ELSE /\ gen.calls < MaxGenerations
         /\ isGeneratingTests' = TRUE
         /\ isGenerateConfirmationOpen' = FALSE
         /\ gen' = [pc |-> "inflight", mode |-> mode, calls |-> gen.calls + 1,
                 story |-> userStory]
         /\ UNCHANGED <<credentials, userStory, isFetchingStory, processedDocuments, testCases, manualTestCaseCounter,
                        isUploadingTests, uploadingTestCaseIds, testPlanId, testSuiteId>>

\* A variant of handleGenerateTestCases that never asks and appends.
handleGenerateTestCasesWithoutAsking ==
    /\ PageIsInteractive
    /\ ~isGeneratingTests
    /\ PerformAiGenerationStart(
            IF Len(SelectSeq(testCases, IsNotManual)) > 0 THEN "append" ELSE "override")
    /\ UNCHANGED <<up, trackerVars, g, fn>>

\* handleGenerateTestCases (page.tsx:172-183), behind its button
\* (page.tsx:614: disabled while a generation runs)
handleGenerateTestCases ==
    /\ PageIsInteractive
    /\ ~isGeneratingTests
    /\ LET existingAiCases == SelectSeq(testCases, IsNotManual)
       IN  IF Len(existingAiCases) > 0
           THEN /\ isGenerateConfirmationOpen' = TRUE
                /\ UNCHANGED <<credentials, userStory, isFetchingStory, processedDocuments, testCases, manualTestCaseCounter,
                               isGeneratingTests, isUploadingTests, uploadingTestCaseIds,
                               testPlanId, testSuiteId, gen>>
           ELSE PerformAiGenerationStart("override")
    /\ UNCHANGED <<up, trackerVars, g, fn>>

\* AlertDialogCancel, or the dialog dismissed (page.tsx:719, 729)
CancelGenerateConfirmation ==
    /\ isGenerateConfirmationOpen
    /\ isGenerateConfirmationOpen' = FALSE
    /\ UNCHANGED <<credentials, userStory, isFetchingStory, processedDocuments, testCases, manualTestCaseCounter,
                   isGeneratingTests, isUploadingTests, uploadingTestCaseIds,
                   testPlanId, testSuiteId, gen, up, trackerVars, g, fn>>

\* the two AlertDialogAction buttons (page.tsx:730-738)
ConfirmGenerate(mode) ==
    /\ isGenerateConfirmationOpen
    /\ PerformAiGenerationStart(mode)
    /\ UNCHANGED <<up, trackerVars, g, fn>>

\* generateTestCases resolved: the rest of the try block and the finally
\* (page.tsx:145-162, 167-169)
GenerationReturns(generated) ==
    /\ gen.pc = "inflight"
    /\ testCases' = Merge(gen.mode, testCases, generated)
    /\ isGeneratingTests' = FALSE
    /\ gen' = [IdleGen EXCEPT !.calls = gen.calls]
    /\ UNCHANGED <<credentials, userStory, isFetchingStory, processedDocuments, manualTestCaseCounter, isUploadingTests,
                   uploadingTestCaseIds, testPlanId, testSuiteId,
                   isGenerateConfirmationOpen, up, trackerVars, g, fn>>

\* A variant of the catch that takes the failure for an empty batch and
\* merges it.
GenerationThrowsMergingNothing ==
    /\ gen.pc = "inflight"
    /\ testCases' = Merge(gen.mode, testCases, <<>>)
    /\ isGeneratingTests' = FALSE
    /\ gen' = [IdleGen EXCEPT !.calls = gen.calls]
    /\ UNCHANGED <<credentials, userStory, isFetchingStory, processedDocuments, manualTestCaseCounter,
                   isUploadingTests, uploadingTestCaseIds, testPlanId, testSuiteId,
                   isGenerateConfirmationOpen, up, trackerVars, g, fn>>

\* generateTestCases rejected: the catch and the finally (page.tsx:163-169)
GenerationThrows ==
    /\ gen.pc = "inflight"
    /\ isGeneratingTests' = FALSE
    /\ gen' = [IdleGen EXCEPT !.calls = gen.calls]
    /\ UNCHANGED <<credentials, userStory, isFetchingStory, processedDocuments, testCases, manualTestCaseCounter,
                   isUploadingTests, uploadingTestCaseIds, testPlanId, testSuiteId,
                   isGenerateConfirmationOpen, up, trackerVars, g, fn>>

-----------------------------------------------------------------------------
(* Manual entries and deletion (page.tsx:185-206) *)

\* A variant of the handler that numbers a new entry after the manual
\* entries the collection holds.
AddManualTestCaseCountingEntries(limit) ==
    /\ PageIsInteractive
    /\ manualTestCaseCounter <= limit
    /\ testCases' = Append(testCases,
                           NewManualTestCase(Len(SelectSeq(testCases, IsManual)) + 1))
    /\ manualTestCaseCounter' = manualTestCaseCounter + 1
    /\ UNCHANGED <<credentials, userStory, isFetchingStory, processedDocuments,
                   isGeneratingTests, isUploadingTests, uploadingTestCaseIds,
                   testPlanId, testSuiteId, isGenerateConfirmationOpen, gen, up,
                   trackerVars, g, fn>>

\* handleAddManualTestCase (page.tsx:185-198), for a session in which at most
\* limit manual test cases are added
AddManualTestCase(limit) ==
    /\ PageIsInteractive
    /\ manualTestCaseCounter <= limit
    /\ testCases' = Append(testCases, NewManualTestCase(manualTestCaseCounter))
    /\ manualTestCaseCounter' = manualTestCaseCounter + 1
    /\ UNCHANGED <<credentials, userStory, isFetchingStory, processedDocuments, isGeneratingTests, isUploadingTests,
                   uploadingTestCaseIds, testPlanId, testSuiteId,
                   isGenerateConfirmationOpen, gen, up, trackerVars, g, fn>>

handleAddManualTestCase == AddManualTestCase(MaxManual)

\* uploadingTestCases.includes(testCase.id)
RECURSIVE Includes(_, _)
Includes(s, x) ==
    IF s = <<>> THEN FALSE
    ELSE IF Head(s) = x THEN TRUE
    ELSE Includes(Tail(s), x)

\* handleDeleteTestCase (page.tsx:204-206), behind the card's delete button
\* (test-case-card.tsx:102: disabled while uploading and once uploaded)
handleDeleteTestCase(i) ==
    /\ PageIsInteractive
    /\ i \in DOMAIN testCases
    /\ ~Includes(uploadingTestCaseIds, testCases[i].id)
    /\ testCases[i].uploadStatus # "success"
    /\ LET testCaseId == testCases[i].id
           Keep(tc) == tc.id # testCaseId
       IN  testCases' = SelectSeq(testCases, Keep)
    /\ UNCHANGED <<credentials, userStory, isFetchingStory, processedDocuments, manualTestCaseCounter, isGeneratingTests,
                   isUploadingTests, uploadingTestCaseIds, testPlanId, testSuiteId,
                   isGenerateConfirmationOpen, gen, up, trackerVars, g, fn>>

\* handleUpdateTestCase (page.tsx:200-202) with the test case the card saves
\* (test-case-card.tsx:30-54): the edit button, the typing and the save of a
\* card in one step, while the card is neither uploading nor uploaded
\* (test-case-card.tsx:88-99)
handleUpdateTestCase(i, content) ==
    /\ PageIsInteractive
    /\ i \in DOMAIN testCases
    /\ ~Includes(uploadingTestCaseIds, testCases[i].id)
    /\ testCases[i].uploadStatus # "success"
    /\ LET updatedTC == [testCases[i] EXCEPT !.title = content.title,
                                             !.priority = content.priority,
                                             !.description = content.description,
                                             !.expectedResult = content.expectedResult]
       IN  /\ updatedTC # testCases[i]
           /\ testCases' = [j \in DOMAIN testCases |->
                               IF testCases[j].id = updatedTC.id
                               THEN updatedTC ELSE testCases[j]]
    /\ UNCHANGED <<credentials, userStory, isFetchingStory, processedDocuments, manualTestCaseCounter,
                   isGeneratingTests, isUploadingTests, uploadingTestCaseIds,
                   testPlanId, testSuiteId, isGenerateConfirmationOpen, gen, up,
                   trackerVars, g, fn>>

-----------------------------------------------------------------------------
(* Fetching a story: handleFetchStory (page.tsx:95-120) *)

\* the stories of the tracker
Stories == {1, 2}

\* A variant of handleFetchStory that keeps the processed documents.
handleFetchStoryKeepingDocuments ==
    /\ credentials # "none"
    /\ ~isGenerateConfirmationOpen
    /\ ~isFetchingStory
    /\ IF credentials # "ok"
       THEN UNCHANGED uiVars
       ELSE /\ isFetchingStory' = TRUE
            /\ userStory' = NoStory
            /\ testCases' = <<>>
            /\ manualTestCaseCounter' = 1
            /\ UNCHANGED <<credentials, processedDocuments, isGeneratingTests,
                           isUploadingTests, uploadingTestCaseIds, testPlanId,
                           testSuiteId, isGenerateConfirmationOpen>>
    /\ UNCHANGED <<gen, up, trackerVars, g, fn>>

\* handleFetchStory up to the await of fetchUserStoryById (page.tsx:95-106),
\* behind the button of the form (page.tsx:509: disabled while a fetch runs)
handleFetchStory ==
    /\ credentials # "none"
    /\ ~isGenerateConfirmationOpen
    /\ ~isFetchingStory
    /\ IF credentials # "ok"
       THEN UNCHANGED uiVars
       ELSE /\ isFetchingStory' = TRUE
            /\ userStory' = NoStory
            /\ testCases' = <<>>
            /\ manualTestCaseCounter' = 1
            /\ processedDocuments' = <<>>
            /\ UNCHANGED <<credentials, isGeneratingTests, isUploadingTests,
                           uploadingTestCaseIds, testPlanId, testSuiteId,
                           isGenerateConfirmationOpen>>
    /\ UNCHANGED <<gen, up, trackerVars, g, fn>>

\* fetchUserStoryById resolved (page.tsx:107-109, 117-119)
FetchReturns(story) ==
    /\ isFetchingStory
    /\ userStory' = story
    /\ isFetchingStory' = FALSE
    /\ UNCHANGED <<credentials, processedDocuments, testCases, manualTestCaseCounter, isGeneratingTests,
                   isUploadingTests, uploadingTestCaseIds, testPlanId, testSuiteId,
                   isGenerateConfirmationOpen, gen, up, trackerVars, g, fn>>

\* fetchUserStoryById rejected (page.tsx:110-119): credentials are dropped
\* when the message is that of a failed authentication
FetchThrows(authenticationFailed) ==
    /\ isFetchingStory
    /\ isFetchingStory' = FALSE
    /\ credentials' = IF authenticationFailed THEN "none" ELSE credentials
    /\ UNCHANGED <<userStory, processedDocuments, testCases, manualTestCaseCounter,
                   isGeneratingTests, isUploadingTests, uploadingTestCaseIds,
                   testPlanId, testSuiteId, isGenerateConfirmationOpen, gen, up,
                   trackerVars, g, fn>>

-----------------------------------------------------------------------------
(* Logging out and in (page.tsx:90-93, 464) *)

\* the Log Out button (page.tsx:463-467), rendered while credentials are set
handleLogOut ==
    /\ credentials # "none"
    /\ ~isGenerateConfirmationOpen
    /\ credentials' = "none"
    /\ userStory' = NoStory
    /\ testCases' = <<>>
    /\ manualTestCaseCounter' = 1
    /\ testPlanId' = <<>>
    /\ testSuiteId' = <<>>
    /\ processedDocuments' = <<>>
    /\ UNCHANGED <<isFetchingStory, isGeneratingTests, isUploadingTests,
                   uploadingTestCaseIds, isGenerateConfirmationOpen, gen, up,
                   trackerVars, g, fn>>

\* handleAuthentication (page.tsx:90-93) with what the form of the
\* authentication dialog accepts (part_003:28-32): all three fields set
handleAuthentication ==
    /\ credentials # "ok"
    /\ credentials' = "ok"
    /\ UNCHANGED <<userStory, isFetchingStory, processedDocuments, testCases,
                   manualTestCaseCounter, isGeneratingTests, isUploadingTests,
                   uploadingTestCaseIds, testPlanId, testSuiteId,
                   isGenerateConfirmationOpen, gen, up, trackerVars, g, fn>>

-----------------------------------------------------------------------------
(* Supporting documents (page.tsx:356-444) *)

\* the files the user may pick, by the id the page gives them (page.tsx:367)
Files == {"notes.txt"}

\* findIndex(d => d.id === id) (page.tsx:378)
HasDocument(docs, id) == \E i \in DOMAIN docs : docs[i].id = id

\* prev.map(d => d.id === docId ? { ...d, status } : d)
\* (page.tsx:379, 409, 417, 422, 427)
WithStatus(docs, docId, status) ==
    [i \in DOMAIN docs |-> IF docs[i].id = docId THEN [docs[i] EXCEPT !.status = status]
                           ELSE docs[i]]

\* handleFileChange with one file, up to its first await (page.tsx:356-388);
\* the section is rendered when a story is loaded (page.tsx:550)
handleFileChange(file) ==
    /\ PageIsInteractive
    /\ processedDocuments' =
            IF HasDocument(processedDocuments, file)
            THEN WithStatus(processedDocuments, file, "processing")
            ELSE Append(processedDocuments, [id |-> file, status |-> "processing"])
    /\ UNCHANGED <<credentials, userStory, isFetchingStory, testCases,
                   manualTestCaseCounter, isGeneratingTests, isUploadingTests,
                   uploadingTestCaseIds, testPlanId, testSuiteId,
                   isGenerateConfirmationOpen, gen, up, trackerVars, g, fn>>

\* the text of a file was extracted, or the extraction failed
\* (page.tsx:421-429); without an entry of the file the updater changes
\* nothing
FileProcessed(file, status) ==
    /\ \E i \in DOMAIN processedDocuments :
          /\ processedDocuments[i].id = file
          /\ processedDocuments[i].status = "processing"
    /\ processedDocuments' = WithStatus(processedDocuments, file, status)
    /\ UNCHANGED <<credentials, userStory, isFetchingStory, testCases,
                   manualTestCaseCounter, isGeneratingTests, isUploadingTests,
                   uploadingTestCaseIds, testPlanId, testSuiteId,
                   isGenerateConfirmationOpen, gen, up, trackerVars, g, fn>>

-----------------------------------------------------------------------------
(* The upload loop: handleUploadTestCases (page.tsx:256-345) *)

IdleUp ==
    [pc |-> "idle", testCases |-> <<>>, casesToUpload |-> <<>>, successCount |-> 0,
     currentUploadIndex |-> 0, errorMessages |-> <<>>, planId |-> <<>>,
     suiteId |-> <<>>, createdWorkItem |-> NoWorkItem, failureCount |-> 0]

IsSuccess(tc) == tc.uploadStatus = "success"
IsNotSuccess(tc) == tc.uploadStatus # "success"

IdsOf(cases) == [i \in 1..Len(cases) |-> cases[i].id]

\* A variant of the button that stays enabled while a pass runs.
UploadButtonEnabledWhileUploading ==
    /\ Len(testCases) # 0
    /\ \E i \in DOMAIN testCases : testCases[i].uploadStatus # "success"

\* the button of page.tsx:697-704
UploadButtonEnabled ==
    /\ ~isUploadingTests
    /\ Len(testCases) # 0
    /\ \E i \in DOMAIN testCases : testCases[i].uploadStatus # "success"

\* A variant of the filter that takes every test case.
AllCases(cases) == cases

\* A variant of the filter that leaves out the test cases whose work item a
\* failed pass has already created.
CasesToUploadUnlessCreated(cases) ==
    LET NotCreated(tc) ==
            /\ tc.uploadStatus # "success"
            /\ ~(/\ tc.uploadError # <<>>
                 /\ tc.uploadError[1] = "created, but failed to add to Test Suite")
    IN  SelectSeq(cases, NotCreated)

\* testCases.filter(tc => tc.uploadStatus !== 'success') (page.tsx:275)
CasesToUpload(cases) == SelectSeq(cases, IsNotSuccess)

\* A variant of the loop that ends with the first failure.
HasNextUnlessFailed(u) ==
    u.currentUploadIndex < Len(u.casesToUpload) /\ u.errorMessages = <<>>

\* the for...of loop has a next element (page.tsx:290)
HasNext(u) == u.currentUploadIndex < Len(u.casesToUpload)

\* testCases.filter(tc => tc.uploadStatus === 'success'
\*                        && !casesToUpload.find(c => c.id === tc.id)).length
\* over the testCases the handler closed over (page.tsx:319)
AlreadyUploaded(u) ==
    LET NotAttempted(tc) ==
            /\ tc.uploadStatus = "success"
            /\ ~Includes(IdsOf(u.casesToUpload), tc.id)
    IN  Len(SelectSeq(u.testCases, NotAttempted))

\* the request of the first await of uploadTestCaseToAzureDevOps for the
\* test case at index i of casesToUpload
IssueCreate(u, reqs, i) == Append(reqs, CreateRequest(u.casesToUpload[i]))

\* the response to the request in flight has arrived
Answered(reqs, status) == [reqs EXCEPT ![Len(reqs)].status = status]

\* The handler from the click to its first await (page.tsx:256-297): the
\* checks, the snapshot casesToUpload, and the creation request of the first
\* test case. requests holds the requests of the running pass.
handleUploadTestCases ==
    /\ PageIsInteractive
    /\ UploadButtonEnabled
    /\ IF \/ credentials # "ok"
          \/ userStory = NoStory
          \/ Trim(testPlanId) = <<>>
          \/ Trim(testSuiteId) = <<>>
          \/ CasesToUpload(testCases) = <<>>
       THEN UNCHANGED <<uiVars, up, requests>>
       ELSE LET casesToUpload == CasesToUpload(testCases)
                u == [IdleUp EXCEPT
                        !.pc = "creating",
                        !.testCases = testCases,
                        !.casesToUpload = casesToUpload,
                        !.successCount = Len(SelectSeq(testCases, IsSuccess)),
                        !.currentUploadIndex = 1,
                        !.planId = testPlanId,
                        !.suiteId = testSuiteId]
            IN  /\ isUploadingTests' = TRUE
                /\ uploadingTestCaseIds' = IdsOf(casesToUpload)
                /\ up' = u
                /\ requests' = IssueCreate(u, <<>>, 1)
                /\ UNCHANGED <<credentials, userStory, isFetchingStory, processedDocuments, testCases, manualTestCaseCounter,
                               isGeneratingTests, testPlanId, testSuiteId,
                               isGenerateConfirmationOpen>>
    /\ UNCHANGED <<gen, workItems, g, fn>>

\* The end of one iteration and what follows without an await: the finally
\* (page.tsx:313-315), then either the next iteration up to its creation
\* request, or the end of the pass up to the await of the summary
\* (page.tsx:318-335).
FinishIteration(u, newTestCases, reqs) ==
    LET testCase == u.casesToUpload[u.currentUploadIndex]
        Others(id) == id # testCase.id
    IN  /\ testCases' = newTestCases
        /\ uploadingTestCaseIds' = SelectSeq(uploadingTestCaseIds, Others)
        /\ IF HasNext(u)
           THEN /\ up' = [u EXCEPT !.currentUploadIndex = @ + 1,
                                   !.pc = "creating",
                                   !.createdWorkItem = NoWorkItem]
                /\ requests' = IssueCreate(u, reqs, u.currentUploadIndex + 1)
                /\ UNCHANGED isUploadingTests
           ELSE /\ isUploadingTests' = FALSE
                /\ up' = [u EXCEPT
                            !.pc = "summarizing",
                            !.createdWorkItem = NoWorkItem,
                            !.failureCount =
                                Len(u.casesToUpload) - (u.successCount - AlreadyUploaded(u))]
                /\ requests' = reqs
        /\ UNCHANGED <<credentials, userStory, isFetchingStory, processedDocuments, manualTestCaseCounter, isGeneratingTests,
                       testPlanId, testSuiteId, isGenerateConfirmationOpen>>

\* the updater of the try block (page.tsx:299-303)
MarkSuccess(prev, testCase, createdWorkItemId) ==
    [i \in 1..Len(prev) |->
        IF prev[i].id = testCase.id
        THEN [prev[i] EXCEPT !.uploadStatus = "success",
                             !.azureDevOpsId = createdWorkItemId,
                             !.azureDevOpsUrl = WebUrl(createdWorkItemId),
                             !.uploadError = NoError]
        ELSE prev[i]]

\* A variant of the catch block's updater that takes a work item that was
\* created but not linked for an upload.
MarkCreatedAsSuccess(prev, testCase, uploadErrorMessage) ==
    IF uploadErrorMessage[1] = "created, but failed to add to Test Suite"
    THEN MarkSuccess(prev, testCase, uploadErrorMessage[2])
    ELSE [i \in 1..Len(prev) |->
            IF prev[i].id = testCase.id
            THEN [prev[i] EXCEPT !.uploadStatus = "failed", !.uploadError = uploadErrorMessage]
            ELSE prev[i]]

\* the updater of the catch block (page.tsx:308-312)
MarkFailed(prev, testCase, uploadErrorMessage) ==
    [i \in 1..Len(prev) |->
        IF prev[i].id = testCase.id
        THEN [prev[i] EXCEPT !.uploadStatus = "failed", !.uploadError = uploadErrorMessage]
        ELSE prev[i]]

\* the catch block (page.tsx:305-312) and the rest of the iteration
CatchUploadError(testCase, uploadErrorMessage, reqs) ==
    FinishIteration(
        [up EXCEPT !.errorMessages = Append(@, <<testCase.id, uploadErrorMessage>>)],
        MarkFailed(testCases, testCase, uploadErrorMessage),
        reqs)

\* The response to the creation request (azure-devops-api.ts:192-227): an
\* error is thrown to the loop's catch; otherwise the tracker holds a new
\* work item and the suite-link request is issued.
CreateResponds(status) ==
    /\ up.pc = "creating"
    /\ IsOk(status) => Len(workItems) < MaxWorkItems
    /\ LET testCase == up.casesToUpload[up.currentUploadIndex]
           reqs == Answered(requests, status)
           createdWorkItemId == Len(workItems) + 1
       IN  IF IsOk(status)
           THEN /\ workItems' = Append(workItems,
                        [body |-> requests[Len(requests)].body, suite |-> <<>>])
                /\ up' = [up EXCEPT !.pc = "linking", !.createdWorkItem = createdWorkItemId]
                /\ requests' = Append(reqs, LinkRequest(createdWorkItemId, up.planId, up.suiteId))
                /\ UNCHANGED uiVars
           ELSE /\ CatchUploadError(testCase, CreateError(testCase, status), reqs)
                /\ UNCHANGED workItems
    /\ UNCHANGED <<gen, g, fn>>

\* The response to the suite-link request (azure-devops-api.ts:229-256) and
\* the rest of the iteration (page.tsx:298-304 or 305-312).
LinkResponds(status) ==
    /\ up.pc = "linking"
    /\ LET testCase == up.casesToUpload[up.currentUploadIndex]
           reqs == Answered(requests, status)
       IN  IF IsOk(status)
           THEN /\ workItems' = [workItems EXCEPT
                                   ![up.createdWorkItem].suite = <<up.planId, up.suiteId>>]
                /\ FinishIteration(
                        [up EXCEPT !.successCount = @ + 1],
                        MarkSuccess(testCases, testCase, up.createdWorkItem),
                        reqs)
           ELSE /\ CatchUploadError(
                        testCase,
                        LinkError(up.createdWorkItem, up.planId, up.suiteId, status),
                        reqs)
                /\ UNCHANGED workItems
    /\ UNCHANGED <<gen, g, fn>>

\* summarizeTestCaseGenerationResults resolved: the toast (page.tsx:336-340)
SummaryReturns ==
    /\ up.pc = "summarizing"
    /\ up' = IdleUp
    /\ UNCHANGED <<uiVars, gen, trackerVars, g, fn>>

\* summarizeTestCaseGenerationResults rejected: the catch (page.tsx:341-343)
SummaryThrows ==
    /\ up.pc = "summarizing"
    /\ up' = IdleUp
    /\ UNCHANGED <<uiVars, gen, trackerVars, g, fn>>

-----------------------------------------------------------------------------
(* The generation flow: generateTestCases (part_002:203-271) *)

\* A response text is a sequence of characters. The letter "T" stands for the
\* text of one JSON object that satisfies TestCaseSchema, "U" for another,
\* "X" for the text of an object that does not (a field is missing) and "1"
\* is a digit; Backtick is the backtick character, which a string of this
\* language cannot hold; the other characters are themselves.
Backtick == "backtick"
Fence == <<Backtick, Backtick, Backtick>>
FenceJson == Fence \o <<"j", "s", "o", "n">>

StartsWith(s, prefix) ==
    /\ Len(s) >= Len(prefix)
    /\ SubSeq(s, 1, Len(prefix)) = prefix

\* the suffix of s from position p matches the second alternative of the
\* regex: spaces, three backticks, spaces, end of text
IsClosingFenceAt(s, p) ==
    LET afterSpace == TrimStart(SubSeq(s, p, Len(s)))
    IN  /\ StartsWith(afterSpace, Fence)
        /\ TrimStart(SubSeq(afterSpace, Len(Fence) + 1, Len(afterSpace))) = <<>>

\* jsonString.replace(regex, empty) of part_002:241, where the regex has two
\* alternatives and the flag g: three backticks, "json" and spaces at the
\* start of the text; or spaces, three backticks and spaces at its end. The
\* first alternative matches at the start of the text only; the scan then goes on
\* from the end of that match, and the second alternative matches at the
\* first position from which the rest of the text is a closing fence.
StripCodeFence(jsonString) ==
    LET n == Len(jsonString)
        opened == StartsWith(jsonString, FenceJson)
        from == IF opened
                THEN n - Len(TrimStart(SubSeq(jsonString, Len(FenceJson) + 1, n))) + 1
                ELSE 1
        closing == { p \in from..n : IsClosingFenceAt(jsonString, p) }
        to == IF closing = {} THEN n
              ELSE (CHOOSE p \in closing : \A q \in closing : p <= q) - 1
    IN  SubSeq(jsonString, from, to)

\* cleanedJsonString (part_002:241)
CleanJsonString(jsonString) == Trim(StripCodeFence(jsonString))

\* Values of JSON.parse.
JsonObject(name) == [kind |-> "object", name |-> name, items |-> <<>>]
JsonNumber(digits) == [kind |-> "number", name |-> digits, items |-> <<>>]
JsonArray(items) == [kind |-> "array", name |-> <<>>, items |-> items]
ParseFailure == [ok |-> FALSE, value |-> JsonArray(<<>>), next |-> 0]
Parsed(value, next) == [ok |-> TRUE, value |-> value, next |-> next]

\* the whitespace of the JSON grammar
IsJsonSpace(c) == c \in {" ", "\n", "\t"}

RECURSIVE SkipSpace(_, _)
SkipSpace(s, i) ==
    IF i <= Len(s) /\ IsJsonSpace(s[i]) THEN SkipSpace(s, i + 1) ELSE i

RECURSIVE EndOfDigits(_, _)
EndOfDigits(s, i) ==
    IF i <= Len(s) /\ s[i] = "1" THEN EndOfDigits(s, i + 1) ELSE i

\* JSON.parse (part_002:245) on the characters above: a value is an object
\* letter, a number, or an array of values.
RECURSIVE ParseValue(_, _)
RECURSIVE ParseElements(_, _, _)
ParseValue(s, i) ==
    IF i > Len(s) THEN ParseFailure
    ELSE IF s[i] \in {"T", "U", "X"} THEN Parsed(JsonObject(<<s[i]>>), i + 1)
    ELSE IF s[i] = "1"
         THEN Parsed(JsonNumber(SubSeq(s, i, EndOfDigits(s, i) - 1)), EndOfDigits(s, i))
    ELSE IF s[i] = "["
         THEN LET j == SkipSpace(s, i + 1)
              IN  IF j <= Len(s) /\ s[j] = "]" THEN Parsed(JsonArray(<<>>), j + 1)
                  ELSE ParseElements(s, j, <<>>)
    ELSE ParseFailure

\* the elements of an array after its "[" or after a ","
ParseElements(s, i, items) ==
    LET element == ParseValue(s, i)
        j == SkipSpace(s, element.next)
    IN  IF ~element.ok \/ j > Len(s) THEN ParseFailure
        ELSE IF s[j] = "]" THEN Parsed(JsonArray(Append(items, element.value)), j + 1)
        ELSE IF s[j] = ","
             THEN ParseElements(s, SkipSpace(s, j + 1), Append(items, element.value))
        ELSE ParseFailure

JsonParse(s) ==
    LET r == ParseValue(s, SkipSpace(s, 1))
    IN  IF r.ok /\ SkipSpace(s, r.next) = Len(s) + 1 THEN r ELSE ParseFailure

\* the objects the letters stand for
ObjectOf(name) ==
    IF name = <<"T">> THEN GeneratedCase(<<"TC-POS-", 1>>, UpdatedContent)
    ELSE GeneratedCase(<<"TC-POS-", 3>>, UpdatedContent)

\* GenerateTestCasesOutputSchema.safeParse (part_002:252): an array whose
\* elements all satisfy TestCaseSchema
MatchesOutputSchema(value) ==
    /\ value.kind = "array"
    /\ \A i \in 1..Len(value.items) :
          /\ value.items[i].kind = "object"
          /\ value.items[i].name \in {<<"T">>, <<"U">>}

\* validationResult.data
OutputData(value) == [i \in 1..Len(value.items) |-> ObjectOf(value.items[i].name)]

\* The type of the value in each field of the input; the input schema
\* (part_002:15-20) looks at nothing else.
InputFieldTypes == {"string", "undefined", "number"}

Inputs ==
    [storyTitle : InputFieldTypes, acceptanceCriteria : {"string", "undefined"},
     dataDictionary : InputFieldTypes, businessDocumentsText : {"string", "undefined"}]

NoInput ==
    [storyTitle |-> "undefined", acceptanceCriteria |-> "undefined",
     dataDictionary |-> "undefined", businessDocumentsText |-> "undefined"]

\* GenerateTestCasesInputSchema.safeParse(input).success (part_002:208)
MatchesInputSchema(input) ==
    /\ input.storyTitle = "string"
    /\ input.acceptanceCriteria = "string"
    /\ input.dataDictionary \in {"string", "undefined"}
    /\ input.businessDocumentsText \in {"string", "undefined"}

\* apiKeySet: process.env.ANTHROPIC_API_KEY is set. modelCalls counts the
\* calls of anthropicClient.messages.create the invocation has made.
IdleG(apiKeySet) ==
    [pc |-> "idle", apiKeySet |-> apiKeySet, input |-> NoInput, modelCalls |-> 0,
     jsonString |-> <<>>, error |-> "none", data |-> <<>>]

\* A variant of the throw that calls the model once more after the first
\* call failed.
ThrownUnlessRetried(invocation, error) ==
    IF invocation.pc = "awaiting" /\ invocation.modelCalls = 1
    THEN [invocation EXCEPT !.modelCalls = @ + 1]
    ELSE [invocation EXCEPT !.pc = "threw", !.error = error]

\* a throw that leaves generateTestCases, directly (part_002:205, 210) or
\* through the catch block, which throws again and does nothing else
\* (part_002:261-270)
Thrown(invocation, error) ==
    [invocation EXCEPT !.pc = "threw", !.error = error]

\* return validationResult.data (part_002:259)
Returned(invocation, data) ==
    [invocation EXCEPT !.pc = "returned", !.data = data]

\* The blocks of response.content: a text block holds a text.
TextBlock(text) == [type |-> "text", text |-> text]
ToolUseBlock == [type |-> "tool_use", text |-> <<>>]

\* response.content.find(block => block.type === 'text') (part_002:228-234):
\* the text of the first text block, the empty string without one
RECURSIVE FirstText(_)
FirstText(content) ==
    IF content = <<>> THEN <<>>
    ELSE IF Head(content).type = "text" THEN Head(content).text
    ELSE FirstText(Tail(content))

\* The try block after the response arrived (part_002:228-259), as the error
\* thrown or the data returned.
ProcessText(jsonString) ==
    LET cleanedJsonString == CleanJsonString(jsonString)
        generatedTestCases == JsonParse(cleanedJsonString)
    IN  IF jsonString = <<>> THEN [error |-> "empty-content", data |-> <<>>]
        ELSE IF ~generatedTestCases.ok THEN [error |-> "parse-failure", data |-> <<>>]
        ELSE IF ~MatchesOutputSchema(generatedTestCases.value)
             THEN [error |-> "schema-mismatch", data |-> <<>>]
        ELSE [error |-> "none", data |-> OutputData(generatedTestCases.value)]

\* generateTestCases from its call to the await of the model call
\* (part_002:203-226)
generateTestCases(input) ==
    /\ g.pc \in {"idle", "returned", "threw"}
    /\ LET invocation == [IdleG(g.apiKeySet) EXCEPT !.input = input]
       IN  g' = IF ~g.apiKeySet THEN Thrown(invocation, "api-key-not-set")
                ELSE IF ~MatchesInputSchema(input) THEN Thrown(invocation, "invalid-input")
                ELSE [invocation EXCEPT !.pc = "awaiting", !.modelCalls = @ + 1]
    /\ UNCHANGED <<uiVars, gen, up, trackerVars, fn>>

\* the model call resolved: the rest of the try block (part_002:228-259)
ModelResponds(content) ==
    /\ g.pc = "awaiting"
    /\ LET jsonString == FirstText(content)
           outcome == ProcessText(jsonString)
           invocation == [g EXCEPT !.jsonString = jsonString]
       IN  g' = IF outcome.error = "none" THEN Returned(invocation, outcome.data)
                ELSE Thrown(invocation, outcome.error)
    /\ UNCHANGED <<uiVars, gen, up, trackerVars, fn>>

\* what the model call may reject with: an error of the SDK (it has a status
\* and a name), another Error, or a value that is no Error
Rejections == {"sdk-error", "error", "no-error-object"}

\* the model call rejected: the catch block (part_002:261-270)
ModelRejects(rejection) ==
    /\ g.pc = "awaiting"
    /\ g' = Thrown(g, CASE rejection = "sdk-error" -> "anthropic-api-error"
                        [] rejection = "error" -> "upstream-error"
                        [] OTHER -> "unknown-error")
    /\ UNCHANGED <<uiVars, gen, up, trackerVars, fn>>

\* The texts a response may hold: a payload alone, or between an opening
\* fence (with or without the language tag) and a closing fence, with or
\* without line breaks around it.
Payloads ==
    { <<>>,
      <<"[", "]">>,
      <<"[", "T", "]">>,
      <<"[", "T", ",", " ", "U", "]">>,
      <<"[", "X", "]">>,
      <<"[", "1", "]">>,
      <<"T">>,
      <<"1", "1">>,
      <<"[", "T", ",", "]">>,
      <<"[", "T">> }

Openings == { <<>>, FenceJson, Fence }
Closings == { <<>>, Fence }
Breaks == { <<>>, <<"\n">> }

Wrapped(opening, before, payload, after, closing) ==
    opening \o before \o payload \o after \o closing

ResponseTexts ==
    { Wrapped(o, b, p, a, c) : o \in Openings, b \in Breaks, p \in Payloads,
                               a \in Breaks, c \in Closings }

ResponseContents ==
    { <<>>, <<ToolUseBlock>> }
        \cup { <<TextBlock(t)>> : t \in ResponseTexts }
        \cup { <<ToolUseBlock, TextBlock(t)>> : t \in ResponseTexts }

-----------------------------------------------------------------------------
(* The merge specification: the generation handlers, manual entries and    *)
(* deletion, from a loaded story whose collection holds entries in every   *)
(* upload state.                                                           *)

\* The entries the merge specification starts from, in the order of the
\* collection: a manual entry added before the first generation, which put
\* it in front of the two generated ones.
MergeInitIds == << <<"MANUAL-", 1>>, <<"TC-POS-", 1>>, <<"TC-POS-", 2>> >>

PendingEntry(id) ==
    IF StartsWithManual(id) THEN NewManualTestCase(id[2])
    ELSE AsPending(GeneratedCase(id, FirstContent))

\* the subsequences of s
RECURSIVE SubSequences(_)
SubSequences(s) ==
    IF s = <<>> THEN { <<>> }
    ELSE LET rest == SubSequences(Tail(s))
         IN  rest \cup { <<Head(s)>> \o t : t \in rest }

UploadStates == {"pending", "success", "failed"}

\* The collection with the given ids after uploads left entry i in state sts[i]:
\* the k-th uploaded entry holds the tracker's k-th work item.
Rank(sts, i) == Cardinality({ j \in 1..i : sts[j] = "success" })

UploadedCollection(ids, sts) ==
    [i \in 1..Len(ids) |->
        LET tc == PendingEntry(ids[i])
        IN  CASE sts[i] = "success" ->
                    MarkSuccess(<<tc>>, tc, Rank(sts, i))[1]
              [] sts[i] = "failed" ->
                    MarkFailed(<<tc>>, tc, CreateError(tc, 404))[1]
              [] OTHER -> tc]

UploadedWorkItems(ids, sts) ==
    [k \in 1..Rank(sts, Len(ids)) |->
        LET i == CHOOSE j \in 1..Len(ids) : sts[j] = "success" /\ Rank(sts, j) = k
        IN  [body |-> workItemBody(PendingEntry(ids[i])), suite |-> <<<<"7">>, <<"9">>>>]]

InitMerge ==
    /\ credentials = "ok"
    /\ isFetchingStory = FALSE
    /\ processedDocuments = <<>>
    /\ userStory = 1
    /\ \E ids \in SubSequences(MergeInitIds) :
         \E sts \in [1..Len(ids) -> UploadStates] :
            /\ testCases = UploadedCollection(ids, sts)
            /\ workItems = UploadedWorkItems(ids, sts)
            /\ manualTestCaseCounter =
                    IF \E i \in 1..Len(ids) : StartsWithManual(ids[i]) THEN 2 ELSE 1
    /\ isGeneratingTests = FALSE
    /\ isUploadingTests = FALSE
    /\ uploadingTestCaseIds = <<>>
    /\ testPlanId = <<"7">>
    /\ testSuiteId = <<"9">>
    /\ isGenerateConfirmationOpen = FALSE
    /\ gen = IdleGen
    /\ up = IdleUp
    /\ requests = <<>>
    /\ g = IdleG(TRUE)
    /\ fn = IdleFn

NextMerge ==
    \/ handleGenerateTestCases
    \/ CancelGenerateConfirmation
    \/ \E mode \in {"append", "override"} : ConfirmGenerate(mode)
    \/ \E generated \in Batches : GenerationReturns(generated)
    \/ GenerationThrows
    \/ handleAddManualTestCase
    \/ \E i \in DOMAIN testCases : handleDeleteTestCase(i)

SpecMerge == InitMerge /\ [][NextMerge]_vars

-----------------------------------------------------------------------------
(* Properties of the merge specification *)

\* a generation call ended in this step
GenerationEnds == gen.pc = "inflight" /\ gen'.pc = "idle"

\* C1: every merge, in append or in replace mode and with any batch, leaves
\* every entry whose id starts with MANUAL- in the collection with all of
\* its fields unchanged.
C1_ManualEntriesSurviveMerges ==
    [][GenerationEnds =>
         \A i \in DOMAIN testCases :
            IsManual(testCases[i]) =>
                \E j \in DOMAIN testCases' : testCases'[j] = testCases[i]]_vars

\* A merge whose batch used the id MANUAL-1 has ended, and the manual entry
\* MANUAL-1 is in the collection next to the batch's entry.
C1_Witness ==
    /\ gen.pc = "idle" /\ gen.calls >= 1
    /\ \E i, j \in DOMAIN testCases :
          /\ testCases[i] = NewManualTestCase(1)
          /\ testCases[j] = AsPending(GeneratedCase(ManualId(1), UpdatedContent))

HasGenerated == Len(SelectSeq(testCases, IsNotManual)) > 0

\* C8: with a generated entry in the collection, asking to generate opens
\* the confirmation and calls nothing; while the confirmation is open the
\* collection does not change and a call is made only by picking append or
\* replace; cancelling calls nothing; without a generated entry, asking to
\* generate starts the call at once in replace mode.
C8_GenerationAsksBeforeMerging ==
    [][/\ (HasGenerated /\ ~isGenerateConfirmationOpen) => gen'.calls = gen.calls
       /\ (handleGenerateTestCases /\ HasGenerated) =>
             isGenerateConfirmationOpen' /\ testCases' = testCases
       /\ isGenerateConfirmationOpen => testCases' = testCases
       /\ (isGenerateConfirmationOpen /\ ~isGenerateConfirmationOpen' /\ gen'.calls = gen.calls) =>
             gen' = gen
       /\ (isGenerateConfirmationOpen /\ gen'.calls # gen.calls) =>
             /\ gen'.pc = "inflight"
             /\ gen'.mode \in {"append", "override"}
             /\ gen'.calls = gen.calls + 1
             /\ ~isGenerateConfirmationOpen'
       /\ (handleGenerateTestCases /\ ~HasGenerated) =>
             /\ gen'.pc = "inflight"
             /\ gen'.mode = "override"
             /\ gen'.calls = gen.calls + 1
             /\ ~isGenerateConfirmationOpen']_vars

\* After a first generation the user asked again and the confirmation is
\* open: no second call has been made.
C8_Witness ==
    /\ isGenerateConfirmationOpen
    /\ HasGenerated
    /\ gen.pc = "idle" /\ gen.calls = 1

-----------------------------------------------------------------------------
(* The merge-step specification: one generation call in flight, in either  *)
(* mode, over a collection left by a replace merge of a batch that repeats *)
(* an id, by uploads and by manual entries added before and after it; the  *)
(* call returns any batch or fails.                                        *)

\* The entries of the collections, in the order of the collection: the
\* manual entries of before the merge, the batch, a manual entry of after.
StepInitEntries ==
    << NewManualTestCase(1),
       AsPending(GeneratedCase(<<"TC-POS-", 1>>, FirstContent)),
       AsPending(GeneratedCase(<<"TC-POS-", 2>>, FirstContent)),
       AsPending(GeneratedCase(<<"TC-POS-", 1>>, UpdatedContent)),
       NewManualTestCase(2) >>

\* the ids whose entries an upload pass may have uploaded
StepUploadedIds == SUBSET { <<"TC-POS-", 1>>, <<"TC-POS-", 2>> }

\* The collection and the tracker's work items after an upload pass over
\* cases from index i on in which the ids of uploaded succeeded and the
\* others were not attempted.
RECURSIVE UploadedInOrder(_, _, _, _, _)
UploadedInOrder(casesToUpload, i, uploaded, cases, items) ==
    IF i > Len(casesToUpload) THEN [testCases |-> cases, workItems |-> items]
    ELSE IF casesToUpload[i].id \in uploaded
         THEN UploadedInOrder(casesToUpload, i + 1, uploaded,
                    MarkSuccess(cases, casesToUpload[i], Len(items) + 1),
                    Append(items, [body |-> workItemBody(casesToUpload[i]),
                                   suite |-> <<<<"7">>, <<"9">>>>]))
         ELSE UploadedInOrder(casesToUpload, i + 1, uploaded, cases, items)

InitMergeStep ==
    /\ credentials = "ok"
    /\ isFetchingStory = FALSE
    /\ processedDocuments = <<>>
    /\ userStory = 1
    /\ \E entries \in SubSequences(StepInitEntries), uploaded \in StepUploadedIds :
         LET after == UploadedInOrder(entries, 1, uploaded, entries, <<>>)
         IN  /\ testCases = after.testCases
             /\ workItems = after.workItems
             /\ manualTestCaseCounter =
                    IF \E i \in DOMAIN entries : entries[i].id = ManualId(2) THEN 3
                    ELSE IF \E i \in DOMAIN entries : entries[i].id = ManualId(1) THEN 2
                    ELSE 1
    /\ isGeneratingTests = TRUE
    /\ isUploadingTests = FALSE
    /\ uploadingTestCaseIds = <<>>
    /\ testPlanId = <<"7">>
    /\ testSuiteId = <<"9">>
    /\ isGenerateConfirmationOpen = FALSE
    /\ \E mode \in {"append", "override"} :
         gen = [pc |-> "inflight", mode |-> mode, calls |-> 1, story |-> 1]
    /\ up = IdleUp
    /\ requests = <<>>
    /\ g = IdleG(TRUE)
    /\ fn = IdleFn

NextMergeStep ==
    \/ \E generated \in Batches : GenerationReturns(generated)
    \/ GenerationThrows

SpecMergeStep == InitMergeStep /\ [][NextMergeStep]_vars

-----------------------------------------------------------------------------
(* Properties of the merge-step specification *)

OccursIn(s, id) == \E i \in DOMAIN s : s[i].id = id

LastWithId(s, id) ==
    s[CHOOSE i \in DOMAIN s :
        s[i].id = id /\ \A j \in DOMAIN s : j > i => s[j].id # id]

\* the entries of s that are the first of their id, in the order of s
RECURSIVE FirstOfEachId(_, _)
FirstOfEachId(s, seen) ==
    IF s = <<>> THEN <<>>
    ELSE IF Head(s).id \in seen THEN FirstOfEachId(Tail(s), seen)
    ELSE <<Head(s)>> \o FirstOfEachId(Tail(s), seen \cup {Head(s).id})

\* The result of an append merge, entry by entry: the manual entries, every
\* existing generated entry (replaced by the batch entry of its id if there
\* is one), and every batch entry with a new id.
AppendByEntry(prev, batch) ==
    LET manual == SelectSeq(prev, IsManual)
        existing == SelectSeq(prev, IsNotManual)
        Updated(e) == IF OccursIn(batch, e.id) THEN AsPending(LastWithId(batch, e.id)) ELSE e
        IsNew(b) == ~OccursIn(existing, b.id)
        new == SelectSeq(batch, IsNew)
    IN  manual \o [i \in 1..Len(existing) |-> Updated(existing[i])]
               \o [i \in 1..Len(new) |-> AsPending(new[i])]

\* The result of an append merge, id by id: the manual entries, one entry
\* for every id of the existing generated entries at the place of the id's
\* first entry (the last batch entry of that id if there is one, the last
\* existing entry of that id otherwise), and one entry for every new id at
\* the place of its first batch entry (the last batch entry of that id).
AppendById(prev, batch) ==
    LET manual == SelectSeq(prev, IsManual)
        existing == SelectSeq(prev, IsNotManual)
        IsNew(b) == ~OccursIn(existing, b.id)
        firstExisting == FirstOfEachId(existing, {})
        firstNew == FirstOfEachId(SelectSeq(batch, IsNew), {})
        Kept(e) == IF OccursIn(batch, e.id) THEN AsPending(LastWithId(batch, e.id))
                   ELSE LastWithId(existing, e.id)
    IN  manual \o [i \in 1..Len(firstExisting) |-> Kept(firstExisting[i])]
               \o [i \in 1..Len(firstNew) |-> AsPending(LastWithId(batch, firstNew[i].id))]

\* no two entries of cases share an id
DistinctIds(cases) ==
    \A i, j \in DOMAIN cases : i # j => cases[i].id # cases[j].id

\* C6 as stated, for a collection in which no two entries share an id and
\* a batch without an id that starts with MANUAL-: an append merge yields the manual entries first, then the existing
\* generated entries in their order, each replaced by the batch entry of
\* its id or kept, then the batch entries with new ids in batch order.
C6_AppendKeepsEveryEntry ==
    [][\A generated \in Batches :
         (/\ DistinctIds(testCases)
          /\ \A i \in DOMAIN generated : IsNotManual(generated[i])
          /\ gen.mode = "append"
          /\ GenerationReturns(generated)) =>
            testCases' = AppendByEntry(testCases, generated)]_vars

\* C6 amended: an append merge yields the manual entries first, then one
\* entry per id of the existing generated entries, in the order of the ids'
\* first entries, holding the last batch entry of that id (as pending) or,
\* without one, the last existing entry of that id, then one entry per new
\* id in the order of the ids' first batch entries, holding the last batch
\* entry of that id (as pending).
C6_AppendMergesById ==
    [][\A generated \in Batches :
         (GenerationReturns(generated) /\ gen.mode = "append") =>
            testCases' = AppendById(testCases, generated)]_vars

\* The example of the claim: manual MANUAL-1, generated TC-POS-1 and
\* TC-POS-2, batch TC-POS-1 (updated) and TC-POS-3.
C6_Witness ==
    /\ gen.pc = "idle" /\ gen.calls >= 1
    /\ Len(workItems) = 1
    /\ Len(testCases) = 4
    /\ testCases[1] = NewManualTestCase(1)
    /\ testCases[2] = AsPending(GeneratedCase(<<"TC-POS-", 1>>, UpdatedContent))
    /\ testCases[3].id = <<"TC-POS-", 2>> /\ testCases[3].uploadStatus = "success"
    /\ testCases[4] = AsPending(GeneratedCase(<<"TC-POS-", 3>>, UpdatedContent))

\* C7: a replace merge yields exactly the manual entries, unchanged and in
\* order, followed by the whole batch in batch order with every batch entry
\* pending; no generated entry from before is left, whatever its status.
C7_ReplaceKeepsManualAndBatchOnly ==
    [][\A generated \in Batches :
         (GenerationReturns(generated) /\ gen.mode = "override") =>
            LET manual == SelectSeq(testCases, IsManual)
            IN  /\ Len(testCases') = Len(manual) + Len(generated)
                /\ SubSeq(testCases', 1, Len(manual)) = manual
                /\ \A i \in 1..Len(generated) :
                      testCases'[Len(manual) + i] = AsPending(generated[i])]_vars

\* Both generated entries were uploaded (the tracker holds their two work
\* items) and a replace merge discarded them: the collection is the manual
\* entry and the batch's one entry.
C7_Witness ==
    /\ gen.pc = "idle" /\ gen.calls >= 1
    /\ Len(workItems) = 2
    /\ testCases = << NewManualTestCase(1),
                      AsPending(GeneratedCase(<<"TC-POS-", 3>>, UpdatedContent)) >>

-----------------------------------------------------------------------------
(* The upload specification: upload passes over the collection a first     *)
(* generation left, with entries deleted while and between the passes.      *)

\* what the user may have typed into the plan and suite inputs
\* (page.tsx:641, 651)
IdTexts == { <<>>, <<" ">>, <<"7">> }

\* The ids of a first batch: the model service numbers its ids as it likes,
\* so a batch is taken with its ids numbered in the order of their first
\* occurrence; an id may occur again.
UploadInitIds ==
    { ids \in SeqsUpTo({ <<"TC-POS-", n>> : n \in 1..MaxUploadCases }, MaxUploadCases) :
        \A i \in DOMAIN ids :
            \/ ids[i][2] = 1
            \/ \E j \in 1..(i - 1) : ids[j][2] = ids[i][2] - 1 }

InitUpload ==
    /\ credentials \in {"ok", "incomplete"}
    /\ isFetchingStory = FALSE
    /\ processedDocuments = <<>>
    /\ userStory = 1
    /\ \E ids \in UploadInitIds :
         testCases = MergeOverride(<<>>, [i \in 1..Len(ids) |-> GeneratedCase(ids[i], FirstContent)])
    /\ manualTestCaseCounter = 1
    /\ isGeneratingTests = FALSE
    /\ isUploadingTests = FALSE
    /\ uploadingTestCaseIds = <<>>
    /\ testPlanId \in IdTexts
    /\ testSuiteId \in IdTexts
    /\ isGenerateConfirmationOpen = FALSE
    /\ gen = IdleGen
    /\ up = IdleUp
    /\ workItems = <<>>
    /\ requests = <<>>
    /\ g = IdleG(TRUE)
    /\ fn = IdleFn

NextUpload ==
    \/ handleUploadTestCases
    \/ \E status \in CreateStatuses : CreateResponds(status)
    \/ \E status \in LinkStatuses : LinkResponds(status)
    \/ SummaryReturns
    \/ SummaryThrows
    \/ \E i \in DOMAIN testCases : handleDeleteTestCase(i)

SpecUpload == InitUpload /\ [][NextUpload]_vars

-----------------------------------------------------------------------------
(* Properties of the upload specification *)

Succeeded(status) == status \in 200..299

\* the test case of the running iteration
CurrentTestCase == up.casesToUpload[up.currentUploadIndex]

\* the requests of kind create among reqs, in order
CreateRequests(reqs) ==
    LET IsCreate(r) == r.kind = "create"
    IN  SelectSeq(reqs, IsCreate)

\* a click started a pass in this step: the log of the pass begins
PassStarts ==
    /\ Len(requests') = 1
    /\ requests'[1].status = NoResponse
    /\ requests' # requests

\* C2: an entry becomes success, with the tracker's id and the web-view
\* URL, only in the step in which the suite-link request of its work item
\* succeeded after the creation request succeeded; when the suite link
\* fails after the creation succeeded, the entries of the test case become
\* failed, the step records no id or URL and the created item's id is on no
\* entry, the created work item stays in the tracker unlinked, and the only
\* requests are creations and suite links.
C2_SuccessOnlyAfterCreateAndLink ==
    [][LET k == Len(requests)
       IN  /\ \A j \in DOMAIN testCases' :
                (/\ Len(testCases') = Len(testCases)
                 /\ testCases[j].uploadStatus # "success"
                 /\ testCases'[j].uploadStatus = "success") =>
                    /\ up.pc = "linking"
                    /\ requests[k].kind = "link"
                    /\ Succeeded(requests'[k].status)
                    /\ requests'[k - 1].kind = "create"
                    /\ Succeeded(requests'[k - 1].status)
                    /\ requests'[k - 1].body = workItemBody(CurrentTestCase)
                    /\ testCases'[j].id = CurrentTestCase.id
                    /\ testCases'[j].azureDevOpsId = requests[k].workItemId
                    /\ testCases'[j].azureDevOpsUrl = WebUrl(requests[k].workItemId)
                    /\ workItems'[requests[k].workItemId].suite # <<>>
           /\ (up.pc = "linking" /\ requests' # requests /\ ~Succeeded(requests'[k].status)) =>
                    /\ Len(testCases') = Len(testCases)
                    /\ \A j \in DOMAIN testCases :
                          /\ testCases[j].id = CurrentTestCase.id =>
                                testCases'[j].uploadStatus = "failed"
                          /\ testCases'[j].azureDevOpsId = testCases[j].azureDevOpsId
                          /\ testCases'[j].azureDevOpsUrl = testCases[j].azureDevOpsUrl
                          /\ testCases'[j].azureDevOpsId # up.createdWorkItem
                    /\ workItems' = workItems
                    /\ workItems[up.createdWorkItem].suite = <<>>
           /\ \A i \in DOMAIN requests' : requests'[i].kind \in {"create", "link"}]_vars

\* A creation succeeded and its suite link failed: the entry is failed
\* without a tracker id, and the work item named in its error is in the
\* tracker without a suite.
C2_Witness ==
    \E j \in DOMAIN testCases :
        /\ testCases[j].uploadStatus = "failed"
        /\ testCases[j].uploadError # NoError
        /\ testCases[j].uploadError[1] = "created, but failed to add to Test Suite"
        /\ testCases[j].azureDevOpsId = NoWorkItem
        /\ workItems[testCases[j].uploadError[2]].suite = <<>>

\* the test cases that were not success when the running pass started
NotSuccessAtStart == SelectSeq(up.testCases, IsNotSuccess)

\* the statuses of the answers of the pass so far
AnswersOfPass == [i \in 1..Len(requests) |-> requests[i].status]

\* C3: the creation requests of a pass are those of the test cases that
\* were not success when it started, one each and in collection order, up
\* to the running iteration and, at the end of the pass, all of them,
\* whatever the earlier answers were; with three test cases of different
\* ids where only the second's suite link is answered 404, the entries end
\* as success, failed (with the static-suite hint) and success.
C3_OneCreationPerPendingCase ==
    /\ up.pc \in {"creating", "linking", "summarizing"} =>
          LET n == IF up.pc = "summarizing" THEN Len(NotSuccessAtStart)
                   ELSE up.currentUploadIndex
              creations == CreateRequests(requests)
          IN  /\ n <= Len(NotSuccessAtStart)
              /\ Len(creations) = n
              /\ \A i \in 1..n : creations[i].body = workItemBody(NotSuccessAtStart[i])
    /\ (/\ up.pc = "summarizing"
        /\ Len(NotSuccessAtStart) = 3
        /\ \A i, k \in 1..3 : i # k => NotSuccessAtStart[i].id # NotSuccessAtStart[k].id
        /\ AnswersOfPass = <<200, 200, 200, 404, 200, 200>>) =>
          \A j \in DOMAIN testCases :
             /\ testCases[j].id \in {NotSuccessAtStart[1].id, NotSuccessAtStart[3].id} =>
                    testCases[j].uploadStatus = "success"
             /\ testCases[j].id = NotSuccessAtStart[2].id =>
                    /\ testCases[j].uploadStatus = "failed"
                    /\ testCases[j].uploadError[6] = "static-suite"

\* The pass of the example has ended: three creation requests, the second
\* test case's suite link answered 404, and the statuses success, failed,
\* success.
C3_Witness ==
    /\ up.pc = "summarizing"
    /\ Len(CreateRequests(requests)) = 3
    /\ AnswersOfPass = <<200, 200, 200, 404, 200, 200>>
    /\ Len(testCases) = 3
    /\ [i \in 1..3 |-> testCases[i].uploadStatus] = <<"success", "failed", "success">>

\* C4: no creation request of a pass is for a test case that was success
\* when the pass started; a pass that starts takes every failed and every
\* pending test case; and while every test case is success and no pass is
\* running, no request is issued.
C4_SuccessIsNeverUploadedAgain ==
    [][/\ up'.pc \in {"creating", "linking", "summarizing"} =>
             \A i \in DOMAIN requests' :
                requests'[i].kind = "create" =>
                   ~\E j \in DOMAIN up'.testCases :
                        /\ up'.testCases[j].uploadStatus = "success"
                        /\ workItemBody(up'.testCases[j]) = requests'[i].body
       /\ PassStarts =>
             /\ \A j \in DOMAIN testCases :
                   testCases[j].uploadStatus \in {"failed", "pending"} =>
                      \E k \in DOMAIN up'.casesToUpload : up'.casesToUpload[k] = testCases[j]
             /\ requests'[1].body = workItemBody(up'.casesToUpload[1])
       /\ (/\ \A j \in DOMAIN testCases : testCases[j].uploadStatus = "success"
           /\ up.pc \notin {"creating", "linking"}) =>
             requests' = requests]_vars

\* A later pass is running over a collection with an uploaded entry, which
\* it leaves out, and a failed entry, which it attempts again.
C4_Witness ==
    /\ up.pc = "creating"
    /\ \E j \in DOMAIN up.testCases : up.testCases[j].uploadStatus = "success"
    /\ \E k \in DOMAIN up.casesToUpload : up.casesToUpload[k].uploadStatus = "failed"

\* the requests whose answer has not arrived
InFlight(reqs) == { i \in DOMAIN reqs : reqs[i].status = NoResponse }

\* C5: at most one creation or suite-link request is in flight; a creation
\* request is issued only when every earlier request of the pass is
\* answered and the entries of the test case before it are success or
\* failed; and a pass starts only when none is running.
C5_UploadsAreSequential ==
    [][/\ Cardinality(InFlight(requests')) <= 1
       /\ InFlight(requests') \subseteq {Len(requests')}
       /\ (/\ requests' # requests
           /\ requests'[Len(requests')].kind = "create"
           /\ requests'[Len(requests')].status = NoResponse
           /\ ~PassStarts) =>
             /\ up'.currentUploadIndex = up.currentUploadIndex + 1
             /\ \A j \in DOMAIN testCases' :
                   testCases'[j].id = CurrentTestCase.id =>
                      testCases'[j].uploadStatus \in {"success", "failed"}
             /\ ~Includes(uploadingTestCaseIds', CurrentTestCase.id)
       /\ PassStarts =>
             /\ ~isUploadingTests
             /\ up.pc \notin {"creating", "linking"}
             /\ InFlight(requests) = {}]_vars

\* The second test case's creation request is in flight: the only one, and
\* the first test case's outcome is known.
C5_Witness ==
    /\ up.pc = "creating"
    /\ up.currentUploadIndex = 2
    /\ InFlight(requests) = {Len(requests)}
    /\ Len(requests) >= 2

-----------------------------------------------------------------------------
(* The generation specification: invocations of generateTestCases, one     *)
(* after the other, with every input and every answer of the model call.   *)

InitGenerate ==
    /\ credentials = "ok"
    /\ isFetchingStory = FALSE
    /\ processedDocuments = <<>>
    /\ userStory = 1
    /\ testCases = <<>>
    /\ manualTestCaseCounter = 1
    /\ isGeneratingTests = FALSE
    /\ isUploadingTests = FALSE
    /\ uploadingTestCaseIds = <<>>
    /\ testPlanId = <<>>
    /\ testSuiteId = <<>>
    /\ isGenerateConfirmationOpen = FALSE
    /\ gen = IdleGen
    /\ up = IdleUp
    /\ workItems = <<>>
    /\ requests = <<>>
    /\ \E apiKeySet \in BOOLEAN : g = IdleG(apiKeySet)
    /\ fn = IdleFn

NextGenerate ==
    \/ \E input \in Inputs : generateTestCases(input)
    \/ \E content \in ResponseContents : ModelResponds(content)
    \/ \E rejection \in Rejections : ModelRejects(rejection)

SpecGenerate == InitGenerate /\ [][NextGenerate]_vars

-----------------------------------------------------------------------------
(* Properties of the generation specification *)

HasTextBlock(content) == \E i \in DOMAIN content : content[i].type = "text"

\* C9: an invocation has made no model call when the credential is absent
\* or the input does not match the input schema, and it has then thrown;
\* otherwise it has made exactly one. The answer to the call ends the
\* invocation: a rejection, a response without a text block and a response
\* whose text is empty end it with an error, and no step makes a further
\* call.
C9_AtMostOneModelCallAndNoRetry ==
    [][/\ g'.pc # "idle" =>
             IF g'.apiKeySet /\ MatchesInputSchema(g'.input)
             THEN g'.modelCalls = 1
             ELSE /\ g'.modelCalls = 0
                  /\ g'.pc = "threw"
                  /\ g'.error = IF g'.apiKeySet THEN "invalid-input" ELSE "api-key-not-set"
       /\ g.pc = "awaiting" =>
             /\ g'.pc \in {"returned", "threw"}
             /\ g'.modelCalls = g.modelCalls
             /\ g'.input = g.input
             /\ (g'.pc = "threw") = (g'.error # "none")
       /\ \A rejection \in Rejections :
             ModelRejects(rejection) => g'.pc = "threw"
       /\ \A content \in ResponseContents :
             (ModelResponds(content) /\ g'.pc = "returned") =>
                /\ HasTextBlock(content)
                /\ JsonParse(CleanJsonString(g'.jsonString)).ok
                /\ MatchesOutputSchema(JsonParse(CleanJsonString(g'.jsonString)).value)
       /\ g.pc \in {"returned", "threw"} =>
             (g'.modelCalls > 0 => g'.pc = "awaiting")]_vars

\* The one model call of an invocation was answered with a text that is
\* no JSON: the invocation has thrown after one call.
C9_Witness ==
    /\ g.pc = "threw"
    /\ g.error = "parse-failure"
    /\ g.modelCalls = 1

\* C10: when the text of the response is a valid JSON payload between an
\* opening fence, with or without the language tag, and a closing fence,
\* the invocation ends as it ends for the payload alone.
C10_FencedPayloadParsesAsBare ==
    \A payload \in Payloads, opening \in {Fence, FenceJson}, before, after \in Breaks :
        (/\ JsonParse(payload).ok
         /\ g.pc \in {"returned", "threw"}
         /\ g.modelCalls = 1
         /\ g.jsonString = Wrapped(opening, before, payload, after, Fence)) =>
            [error |-> g.error, data |-> g.data] = ProcessText(payload)

-----------------------------------------------------------------------------
(* The serializer specification: the creation body of one test case, for   *)
(* every description of up to MaxLines lines, every expected result and     *)
(* every priority of the sets below.                                        *)

\* the lines a description is made of
StepLineTexts ==
    { <<"1", ".", " ", "Open page">>,
      <<"2", ".", " ", "Click button">>,
      <<>>,
      <<" ">>,
      <<"Open page">>,
      <<"3", ".", "1", "4", " seconds">>,
      <<" ", "1", "2", ".", " ">>,
      <<"<", "&">> }

\* Array.prototype.join
RECURSIVE Join(_, _)
Join(parts, sep) ==
    IF parts = <<>> THEN <<>>
    ELSE IF Len(parts) = 1 THEN parts[1]
    ELSE parts[1] \o sep \o Join(Tail(parts), sep)

Descriptions == { Join(lines, <<"\n">>) : lines \in SeqsUpTo(StepLineTexts, MaxLines) }

ExpectedResults ==
    { <<>>,
      <<" ", "\n">>,
      <<"Page loads">>,
      <<" ", "Page loads", "\n">>,
      <<"Page loads", "\n", "Stays">>,
      <<"<", "&", ">", "\"", "'">> }

Priorities == {"High", "Medium", "Low", "Critical", ""}

SerializerInputs ==
    { GeneratedCase(<<"TC-POS-", 1>>,
                    [title |-> "Login works", priority |-> priority,
                     description |-> description, expectedResult |-> expectedResult]) :
        priority \in Priorities, description \in Descriptions,
        expectedResult \in ExpectedResults }

InitSerialize ==
    /\ credentials = "ok"
    /\ isFetchingStory = FALSE
    /\ processedDocuments = <<>>
    /\ userStory = 1
    /\ testCases = <<>>
    /\ manualTestCaseCounter = 1
    /\ isGeneratingTests = FALSE
    /\ isUploadingTests = FALSE
    /\ uploadingTestCaseIds = <<>>
    /\ testPlanId = <<>>
    /\ testSuiteId = <<>>
    /\ isGenerateConfirmationOpen = FALSE
    /\ gen = IdleGen
    /\ up = IdleUp
    /\ workItems = <<>>
    /\ requests = <<>>
    /\ g = IdleG(TRUE)
    /\ \E testCase \in SerializerInputs : fn = Called("workItemBody", testCase)

NextSerialize == BuildWorkItemBody

SpecSerialize == InitSerialize /\ [][NextSerialize]_vars

-----------------------------------------------------------------------------
(* Properties of the serializer specification *)

\* the body has been built
BodyBuilt == fn.pc = "returned" /\ fn.name = "workItemBody"

\* the operations of the body that set the steps field
StepsOperations ==
    SelectSeq(fn.result, LAMBDA operation : operation.path = StepsPath)

\* the steps element of the body
StepsElement == StepsOperations[1].value[1]

\* C11: the body built for a description with n >= 1 non-empty step lines
\* has one steps operation, whose document has exactly n steps with ids
\* 1..n in the order of the lines and last = n; the expected-result slot is
\* empty on the steps 1..n-1, and the slot of step n holds the expected
\* result of the test case. The description "1. Open page\n2. Click button"
\* with the expected result "Page loads" gives two steps, the second one
\* with "Page loads".
C11_StepsNumberedAndResultOnLastStep ==
    BodyBuilt =>
      LET lines == StepLines(fn.args.description)
          n == Len(lines)
      IN /\ n >= 1 =>
              /\ Len(StepsOperations) = 1
              /\ StepsOperations[1].value # NoStepsXml
              /\ StepsElement.last = n
              /\ Len(StepsElement.steps) = n
              /\ \A k \in 1..n :
                    /\ StepsElement.steps[k].id = k
                    /\ StepsElement.steps[k].action = prepareContentForXml(lines[k])
                    /\ k < n => StepsElement.steps[k].expectedResult = <<>>
              /\ StepsElement.steps[n].expectedResult =
                    prepareContentForXml(fn.args.expectedResult)
         /\ (/\ fn.args.description =
                   <<"1", ".", " ", "Open page", "\n", "2", ".", " ", "Click button">>
             /\ fn.args.expectedResult = <<"Page loads">>) =>
              StepsElement =
                 [id |-> 0, last |-> 2,
                  steps |-> <<[id |-> 1, type |-> "ActionStep",
                               action |-> <<"Open page">>, expectedResult |-> <<>>],
                              [id |-> 2, type |-> "ActionStep",
                               action |-> <<"Click button">>,
                               expectedResult |-> <<"Page loads">>]>>]

\* The body of a description with three step lines and an expected result
\* has been built.
C11_Witness ==
    /\ BodyBuilt
    /\ Len(StepLines(fn.args.description)) = 3
    /\ Trim(fn.args.expectedResult) # <<>>
    /\ StepsElement.steps[3].expectedResult # <<>>

\* C12: the body built for a description without step lines and a non-empty
\* expected result has one steps operation whose document has exactly one
\* step, with the action "Verify expected result." and the expected result
\* in its slot; the body built for a description and an expected result that
\* are both empty or whitespace has no steps operation at all.
C12_GenericStepOrNoSteps ==
    BodyBuilt =>
      /\ (/\ StepLines(fn.args.description) = <<>>
          /\ Trim(fn.args.expectedResult) # <<>>) =>
            /\ Len(StepsOperations) = 1
            /\ StepsOperations[1].value =
                  <<[id |-> 0, last |-> 1,
                     steps |-> <<[id |-> 1, type |-> "ActionStep",
                                  action |-> <<"Verify expected result.">>,
                                  expectedResult |->
                                      prepareContentForXml(fn.args.expectedResult)]>>]>>
      /\ (/\ Trim(fn.args.description) = <<>>
          /\ Trim(fn.args.expectedResult) = <<>>) =>
            /\ StepsOperations = <<>>
            /\ Len(fn.result) = 2
            /\ \A i \in DOMAIN fn.result : fn.result[i].path # StepsPath

\* The body of a description made of a bare step marker and of the expected
\* result "Page loads" has been built.
C12_Witness ==
    /\ BodyBuilt
    /\ fn.args.description = <<" ", "1", "2", ".", " ">>
    /\ fn.args.expectedResult = <<"Page loads">>
    /\ Len(StepsOperations) = 1
    /\ StepsElement.steps[1].expectedResult = <<"Page loads">>

\* the texts the slots of the built document are made from, step by step:
\* the step line, and for the last step the trimmed expected result
SlotSources ==
    LET lines == StepLines(fn.args.description)
        actions == IF lines = <<>> THEN <<VerifyExpectedResult>> ELSE lines
    IN [k \in 1..Len(actions) |->
          [action |-> actions[k],
           expectedResult |->
               IF k = Len(actions) THEN Trim(fn.args.expectedResult) ELSE <<>>]]

\* a character of a text as the markup shows it
EscapedCharacter(c) ==
    CASE c = "&" -> <<"&", "a", "m", "p", ";">>
      [] c = "<" -> <<"&", "l", "t", ";">>
      [] c = ">" -> <<"&", "g", "t", ";">>
      [] c = "\"" -> <<"&", "q", "u", "o", "t", ";">>
      [] c = "'" -> <<"&", "#", "0", "3", "9", ";">>
      [] OTHER -> <<c>>

RECURSIVE EscapedText(_)
EscapedText(text) ==
    IF text = <<>> THEN <<>> ELSE EscapedCharacter(Head(text)) \o EscapedText(Tail(text))

\* the break, entity-escaped
EscapedBr == <<"&", "l", "t", ";", "b", "r", " ", "/", "&", "g", "t", ";">>

\* source is rendered in slot as the claim C13 says
RendersLiterally(source, slot) ==
    /\ Contains(source, <<"\n">>) =>
          /\ Contains(slot, Br)
          /\ ~Contains(slot, EscapedBr)
    /\ ~Contains(source, <<"\n">>) => slot = EscapedText(source)

\* C13: in the document of a built body, a slot whose text has a newline
\* holds the literal markup of the break and not its entity-escaped form,
\* and a slot whose text has none holds the text with each of & < > " '
\* replaced by its entity.
C13_BreaksAreLiteralAndTextIsEscaped ==
    (BodyBuilt /\ StepsOperations # <<>>) =>
       \A k \in DOMAIN StepsElement.steps :
          /\ RendersLiterally(SlotSources[k].action, StepsElement.steps[k].action)
          /\ RendersLiterally(SlotSources[k].expectedResult,
                              StepsElement.steps[k].expectedResult)

\* the operations of the body that set the priority field
PriorityOperations ==
    SelectSeq(fn.result,
              LAMBDA operation : operation.path = "/fields/Microsoft.VSTS.Common.Priority")

\* C14: the body built for a test case has one priority operation, whose
\* value is 1 for High, 2 for Medium, 3 for Low and 2 for every other
\* priority: building the body never fails on the priority, and the rank is
\* always a number from 1 to 3.
C14_PriorityMappingIsTotal ==
    /\ BodyBuilt =>
          /\ Len(PriorityOperations) = 1
          /\ PriorityOperations[1].value \in 1..3
          /\ PriorityOperations[1].value =
                IF fn.args.priority = "High" THEN 1
                ELSE IF fn.args.priority = "Low" THEN 3
                ELSE 2
    /\ \A priority \in Priorities :
          mapPriorityToAzureDevOps(priority) =
             IF priority = "High" THEN 1 ELSE IF priority = "Low" THEN 3 ELSE 2

\* The body of a test case of priority "Critical" has been built with rank 2.
C14_Witness ==
    /\ BodyBuilt
    /\ fn.args.priority = "Critical"
    /\ PriorityOperations[1].value = 2

-----------------------------------------------------------------------------
(* The rich-text normalizer: htmlToPlainText (azure-devops-api.ts:11-40).   *)
(* An HTML string is a sequence whose elements are the characters of its    *)
(* text and its tags, one element per tag.                                  *)

\* the tags of the inputs
Tags == {"<p>", "</p>", "<br>", "<li>", "</li>"}
IsTag(t) == t \in Tags

\* the bullet character
Bullet == "bullet"

\* String.prototype.replace with a global pattern that is a fixed string
RECURSIVE ReplaceEach(_, _, _)
ReplaceEach(s, pattern, r) ==
    IF s = <<>> THEN <<>>
    ELSE IF OccursAt(pattern, s, 1)
         THEN r \o ReplaceEach(SubSeq(s, Len(pattern) + 1, Len(s)), pattern, r)
         ELSE <<Head(s)>> \o ReplaceEach(Tail(s), pattern, r)

\* the length of the longest prefix of s made of the characters of class
RECURSIVE RunLength(_, _)
RunLength(s, class) ==
    IF s # <<>> /\ Head(s) \in class THEN 1 + RunLength(Tail(s), class) ELSE 0

\* text.replace(/(\n\s*){2,}/g, '\n\n') (azure-devops-api.ts:35): a run of
\* whitespace that starts with a newline and holds a second one
RECURSIVE CollapseNewlines(_)
CollapseNewlines(s) ==
    IF s = <<>> THEN <<>>
    ELSE LET run == RunLength(s, {" ", "\n", "\t"})
             newlines == Cardinality({i \in 1..run : s[i] = "\n"})
         IN IF Head(s) = "\n" /\ newlines >= 2
            THEN <<"\n", "\n">> \o CollapseNewlines(SubSeq(s, run + 1, Len(s)))
            ELSE <<Head(s)>> \o CollapseNewlines(Tail(s))

\* text.replace(/[ \t]{2,}/g, ' ') (azure-devops-api.ts:36)
RECURSIVE CollapseBlanks(_)
CollapseBlanks(s) ==
    IF s = <<>> THEN <<>>
    ELSE LET run == RunLength(s, {" ", "\t"})
         IN IF run >= 2
            THEN <<" ">> \o CollapseBlanks(SubSeq(s, run + 1, Len(s)))
            ELSE <<Head(s)>> \o CollapseBlanks(Tail(s))

\* the entity replacements (azure-devops-api.ts:28-33), in this order
DecodeEntities(text) ==
    LET nbsp == ReplaceEach(text, <<"&", "n", "b", "s", "p", ";">>, <<" ">>)
        amp == ReplaceEach(nbsp, <<"&", "a", "m", "p", ";">>, <<"&">>)
        lt == ReplaceEach(amp, <<"&", "l", "t", ";">>, <<"<">>)
        gt == ReplaceEach(lt, <<"&", "g", "t", ";">>, <<">">>)
        quot == ReplaceEach(gt, <<"&", "q", "u", "o", "t", ";">>, <<"\"">>)
    IN ReplaceEach(quot, <<"&", "#", "3", "9", ";">>, <<"'">>)

\* htmlToPlainText without the replacement of the opening paragraph tags
\* and without the removal of the remaining tags
htmlToPlainTextKeepingTags(html) ==
    IF html = <<>> THEN <<>>
    ELSE LET breaks == ReplaceAll(html, "<br>", <<"\n">>)
             closed == ReplaceAll(breaks, "</p>", <<"\n", "\n">>)
             itemEnds == ReplaceAll(closed, "</li>", <<"\n">>)
             items == ReplaceAll(itemEnds, "<li>", <<"\n", Bullet, " ">>)
             decoded == DecodeEntities(items)
             paragraphs == CollapseNewlines(decoded)
             blanks == CollapseBlanks(paragraphs)
             bullets == ReplaceEach(blanks, <<"\n", "\n", Bullet, " ">>,
                                    <<"\n", Bullet, " ">>)
         IN Trim(bullets)

\* htmlToPlainText (azure-devops-api.ts:11-40)
htmlToPlainText(html) ==
    IF html = <<>> THEN <<>>
    ELSE LET breaks == ReplaceAll(html, "<br>", <<"\n">>)
             closed == ReplaceAll(breaks, "</p>", <<"\n", "\n">>)
             opened == ReplaceAll(closed, "<p>", <<" ">>)
             itemEnds == ReplaceAll(opened, "</li>", <<"\n">>)
             items == ReplaceAll(itemEnds, "<li>", <<"\n", Bullet, " ">>)
             stripped == SelectSeq(items, LAMBDA t : ~IsTag(t))
             decoded == DecodeEntities(stripped)
             paragraphs == CollapseNewlines(decoded)
             blanks == CollapseBlanks(paragraphs)
             bullets == ReplaceEach(blanks, <<"\n", "\n", Bullet, " ">>,
                                    <<"\n", Bullet, " ">>)
         IN Trim(bullets)

\* the call of htmlToPlainText returns
NormalizeHtml ==
    /\ fn.pc = "called"
    /\ fn.name = "htmlToPlainText"
    /\ fn' = [fn EXCEPT !.pc = "returned", !.result = htmlToPlainText(fn.args)]
    /\ UNCHANGED <<uiVars, gen, up, trackerVars, g>>

\* the pieces an input is made of: the tags, and pieces of text
HtmlPieces ==
    { <<t>> : t \in Tags }
    \cup { <<"a">>,
           <<"&", "l", "t", ";">>,
           <<"&", "g", "t", ";">>,
           <<"&", "a", "m", "p", ";">>,
           <<"l", "t", ";">> }

RECURSIVE Flatten(_)
Flatten(parts) ==
    IF parts = <<>> THEN <<>> ELSE Head(parts) \o Flatten(Tail(parts))

HtmlInputs == { Flatten(pieces) : pieces \in SeqsUpTo(HtmlPieces, MaxPieces) }

InitNormalize ==
    /\ credentials = "ok"
    /\ isFetchingStory = FALSE
    /\ processedDocuments = <<>>
    /\ userStory = NoStory
    /\ testCases = <<>>
    /\ manualTestCaseCounter = 1
    /\ isGeneratingTests = FALSE
    /\ isUploadingTests = FALSE
    /\ uploadingTestCaseIds = <<>>
    /\ testPlanId = <<>>
    /\ testSuiteId = <<>>
    /\ isGenerateConfirmationOpen = FALSE
    /\ gen = IdleGen
    /\ up = IdleUp
    /\ workItems = <<>>
    /\ requests = <<>>
    /\ g = IdleG(TRUE)
    /\ \E html \in HtmlInputs : fn = Called("htmlToPlainText", html)

NextNormalize == NormalizeHtml

SpecNormalize == InitNormalize /\ [][NextNormalize]_vars

-----------------------------------------------------------------------------
(* Properties of the normalizer specification *)

Normalized == fn.pc = "returned" /\ fn.name = "htmlToPlainText"

\* the text segments of an input: its runs of characters between tags
RECURSIVE TextSegments(_)
TextSegments(html) ==
    IF html = <<>> THEN <<>>
    ELSE IF IsTag(Head(html)) THEN TextSegments(Tail(html))
    ELSE LET run == IF \E i \in 1..Len(html) : IsTag(html[i])
                    THEN (CHOOSE i \in 1..Len(html) :
                             IsTag(html[i]) /\ \A j \in 1..(i - 1) : ~IsTag(html[j])) - 1
                    ELSE Len(html)
         IN <<SubSeq(html, 1, run)>> \o TextSegments(SubSeq(html, run + 1, Len(html)))

\* a text without the characters the normalizer lays it out with
WithoutLayout(text) ==
    SelectSeq(text, LAMBDA c : c \notin {" ", "\n", "\t", Bullet})

\* the text has no angle bracket, and no tag
NoAngleBracket(text) ==
    \A i \in DOMAIN text : text[i] \notin {"<", ">"} /\ ~IsTag(text[i])

\* the output holds the text segments of the input, each with its entities
\* decoded, in the order of the input, and nothing else but layout
SegmentsInOrder(html, text) ==
    LET segments == TextSegments(html)
    IN WithoutLayout(text) =
          Flatten([i \in DOMAIN segments |-> DecodeEntities(segments[i])])

HoldsBracketEntity(segment) ==
    \/ Contains(segment, <<"&", "l", "t", ";">>)
    \/ Contains(segment, <<"&", "g", "t", ";">>)
    \/ Contains(segment, <<"&", "a", "m", "p", ";", "l", "t", ";">>)
    \/ Contains(segment, <<"&", "a", "m", "p", ";", "g", "t", ";">>)

-----------------------------------------------------------------------------
(* The prompt composer: fillPromptTemplate (part_002:39-47, 180-200).  A    *)
(* text is a sequence whose elements are its newlines, its blanks, its      *)
(* placeholders, the replacement pattern $& and its runs of other           *)
(* characters.                                                              *)

DataDictionaryHeader == "Data Dictionary (if available): "
BusinessDocumentsHeader == "Supporting Business Documents Content (if available):"

\* USER_PROMPT_TEMPLATE (part_002:39-47 and the guidelines that follow)
USER_PROMPT_TEMPLATE ==
    <<"\n", "You are an expert test case generator", "\n", "\n",
      "User Story Title: ", "{{{storyTitle}}}", "\n",
      "Acceptance Criteria: ", "{{{acceptanceCriteria}}}", "\n",
      DataDictionaryHeader, "{{{dataDictionary}}}", "\n",
      BusinessDocumentsHeader, "\n", "{{{businessDocumentsText}}}", "\n",
      "\n", "Generate test cases following these guidelines:", "\n">>

\* a field that is not set
Undefined == <<"undefined">>

\* value || ''
OrEmpty(value) == IF value = Undefined THEN <<>> ELSE value

\* the replacement string of String.prototype.replace, as it is inserted for
\* a match: $& stands for the matched text
Replacement(r, match) ==
    Flatten([i \in DOMAIN r |-> IF r[i] = "$&" THEN match ELSE <<r[i]>>])

\* template.replace(/{{{name}}}/g, value)
Fill(template, placeholder, value) ==
    ReplaceEach(template, <<placeholder>>, Replacement(value, <<placeholder>>))

\* template.replace(lineRegex, ''): the line regexes end with an optional
\* newline (part_002:185, 192)
RemoveLine(template, line) ==
    ReplaceEach(ReplaceEach(template, line \o <<"\n">>, <<>>), line, <<>>)

\* data.field && data.field.trim() !== ''
IsGiven(value) == value # Undefined /\ value # <<>> /\ Trim(value) # <<>>

\* fillPromptTemplate without the removal of the lines of the sections that
\* are not given
fillPromptTemplateWithEmptySections(template, data) ==
    LET title == Fill(template, "{{{storyTitle}}}", OrEmpty(data.storyTitle))
        criteria == Fill(title, "{{{acceptanceCriteria}}}",
                         OrEmpty(data.acceptanceCriteria))
        dictionary == Fill(criteria, "{{{dataDictionary}}}",
                           OrEmpty(data.dataDictionary))
        documents == Fill(dictionary, "{{{businessDocumentsText}}}",
                          OrEmpty(data.businessDocumentsText))
    IN Trim(documents)

\* fillPromptTemplate (part_002:180-200)
fillPromptTemplate(template, data) ==
    LET title == Fill(template, "{{{storyTitle}}}", OrEmpty(data.storyTitle))
        criteria == Fill(title, "{{{acceptanceCriteria}}}",
                         OrEmpty(data.acceptanceCriteria))
        dictionary ==
            IF IsGiven(data.dataDictionary)
            THEN Fill(criteria, "{{{dataDictionary}}}", data.dataDictionary)
            ELSE RemoveLine(criteria, <<DataDictionaryHeader, "{{{dataDictionary}}}">>)
        documents ==
            IF IsGiven(data.businessDocumentsText)
            THEN Fill(dictionary, "{{{businessDocumentsText}}}",
                      data.businessDocumentsText)
            ELSE RemoveLine(dictionary,
                            <<BusinessDocumentsHeader, "\n",
                              "{{{businessDocumentsText}}}">>)
    IN Trim(documents)

\* the call of fillPromptTemplate in generateTestCases returns (part_002:213)
ComposeUserMessage ==
    /\ fn.pc = "called"
    /\ fn.name = "fillPromptTemplate"
    /\ fn' = [fn EXCEPT !.pc = "returned",
                        !.result = fillPromptTemplate(USER_PROMPT_TEMPLATE, fn.args)]
    /\ UNCHANGED <<uiVars, gen, up, trackerVars, g>>

\* the values of the required fields, and of the optional ones
RequiredTexts == { <<"Login">>, <<"$&">>, <<"Login", "\n", "works">> }
OptionalTexts ==
    { Undefined, <<>>, <<" ">>, <<" ", "\n">>, <<"name: text">>, <<"$&">>,
      <<"--- Document: a ---", "\n", "text", "\n", "--- End Document ---", "\n">> }

PromptInputs ==
    [storyTitle : RequiredTexts, acceptanceCriteria : RequiredTexts,
     dataDictionary : OptionalTexts, businessDocumentsText : OptionalTexts]

InitCompose ==
    /\ credentials = "ok"
    /\ isFetchingStory = FALSE
    /\ processedDocuments = <<>>
    /\ userStory = 1
    /\ testCases = <<>>
    /\ manualTestCaseCounter = 1
    /\ isGeneratingTests = FALSE
    /\ isUploadingTests = FALSE
    /\ uploadingTestCaseIds = <<>>
    /\ testPlanId = <<>>
    /\ testSuiteId = <<>>
    /\ isGenerateConfirmationOpen = FALSE
    /\ gen = IdleGen
    /\ up = IdleUp
    /\ workItems = <<>>
    /\ requests = <<>>
    /\ g = IdleG(TRUE)
    /\ \E data \in PromptInputs : fn = Called("fillPromptTemplate", data)

NextCompose == ComposeUserMessage

SpecCompose == InitCompose /\ [][NextCompose]_vars

-----------------------------------------------------------------------------
(* Properties of the composer specification *)

Composed == fn.pc = "returned" /\ fn.name = "fillPromptTemplate"

\* the message has element e
Holds(message, e) == \E i \in DOMAIN message : message[i] = e

\* the section made of a header and of the text of a source is in the
\* message when the source is given, with the text of the source as it is
\* unless it holds a replacement pattern; when the source is not given, the
\* message has neither the header nor the placeholder
SectionIffGiven(message, source, header, placeholder) ==
    IF IsGiven(source)
    THEN /\ Holds(message, header[1])
         /\ ~Holds(source, "$&") => Contains(message, header \o source)
    ELSE /\ ~Holds(message, header[1])
         /\ ~Holds(message, placeholder)

-----------------------------------------------------------------------------
(* The session specification: the work on one loaded story, from an empty  *)
(* collection or from a first batch, with one more generation call: test   *)
(* cases are generated, added, edited, deleted and uploaded, in every      *)
(* order the page allows.                                                   *)

\* the batches the model service returns in a session: an id with either
\* content, an id twice, and an id with the prefix of the manual entries
SessionBatches ==
    { <<GeneratedCase(<<"TC-POS-", 1>>, FirstContent)>>,
      <<GeneratedCase(<<"TC-POS-", 1>>, UpdatedContent)>>,
      <<GeneratedCase(<<"TC-POS-", 1>>, FirstContent),
        GeneratedCase(<<"TC-POS-", 1>>, UpdatedContent)>>,
      <<GeneratedCase(<<"MANUAL-", 1>>, UpdatedContent)>> }

InitSession ==
    /\ credentials = "ok"
    /\ isFetchingStory = FALSE
    /\ processedDocuments = <<>>
    /\ userStory = 1
    /\ testCases \in { <<>>,
                       MergeOverride(<<>>, <<GeneratedCase(<<"TC-POS-", 1>>, FirstContent)>>) }
    /\ manualTestCaseCounter = 1
    /\ isGeneratingTests = FALSE
    /\ isUploadingTests = FALSE
    /\ uploadingTestCaseIds = <<>>
    /\ testPlanId = <<"7">>
    /\ testSuiteId = <<"7">>
    /\ isGenerateConfirmationOpen = FALSE
    /\ gen = [IdleGen EXCEPT !.calls = MaxGenerations - 1]
    /\ up = IdleUp
    /\ workItems = <<>>
    /\ requests = <<>>
    /\ g = IdleG(TRUE)
    /\ fn = IdleFn

NextSession ==
    \/ handleGenerateTestCases
    \/ CancelGenerateConfirmation
    \/ \E mode \in {"append", "override"} : ConfirmGenerate(mode)
    \/ \E generated \in SessionBatches : GenerationReturns(generated)
    \/ GenerationThrows
    \/ handleAddManualTestCase
    \/ \E i \in DOMAIN testCases : handleDeleteTestCase(i)
    \/ \E i \in DOMAIN testCases : handleUpdateTestCase(i, UpdatedContent)
    \/ handleUploadTestCases
    \/ \E status \in CreateStatuses : CreateResponds(status)
    \/ \E status \in LinkStatuses : LinkResponds(status)
    \/ SummaryReturns
    \/ SummaryThrows

SpecSession == InitSession /\ [][NextSession]_vars

-----------------------------------------------------------------------------
(* The story specification: stories are fetched while test cases are       *)
(* generated, added, edited and deleted.                                    *)

InitStory ==
    /\ credentials = "ok"
    /\ isFetchingStory = FALSE
    /\ processedDocuments = <<>>
    /\ userStory = 1
    /\ testCases = <<>>
    /\ manualTestCaseCounter = 1
    /\ isGeneratingTests = FALSE
    /\ isUploadingTests = FALSE
    /\ uploadingTestCaseIds = <<>>
    /\ testPlanId = <<>>
    /\ testSuiteId = <<>>
    /\ isGenerateConfirmationOpen = FALSE
    /\ gen = IdleGen
    /\ up = IdleUp
    /\ workItems = <<>>
    /\ requests = <<>>
    /\ g = IdleG(TRUE)
    /\ fn = IdleFn

NextStory ==
    \/ handleFetchStory
    \/ \E story \in Stories : FetchReturns(story)
    \/ \E authenticationFailed \in BOOLEAN : FetchThrows(authenticationFailed)
    \/ handleGenerateTestCases
    \/ CancelGenerateConfirmation
    \/ \E mode \in {"append", "override"} : ConfirmGenerate(mode)
    \/ \E generated \in SessionBatches : GenerationReturns(generated)
    \/ GenerationThrows
    \/ handleAddManualTestCase
    \/ \E i \in DOMAIN testCases : handleDeleteTestCase(i)
    \/ \E i \in DOMAIN testCases : handleUpdateTestCase(i, UpdatedContent)

SpecStory == InitStory /\ [][NextStory]_vars

-----------------------------------------------------------------------------
(* Properties of the story specification *)

\* C19: when a generation call ends whose input was made from another story
\* than the one that is loaded now, the collection stays as it is: the
\* result of a call that was in flight when the new story was fetched is
\* not merged into the collection of the new story.
C19_StaleGenerationIsNotMerged ==
    [][(/\ gen.pc = "inflight"
        /\ gen'.pc = "idle"
        /\ userStory # NoStory
        /\ gen.story # userStory) => testCases' = testCases]_vars

-----------------------------------------------------------------------------
(* Properties of the session specification *)

\* the uploads of the running pass that succeeded: its answered links
LinkedInPass ==
    Cardinality({ i \in DOMAIN requests :
                     requests[i].kind = "link" /\ IsOk(requests[i].status) })

\* the success count the pass reports (page.tsx:318-333)
ReportedSuccessCount == up.successCount - AlreadyUploaded(up)

\* C17: when a pass over k test cases reports, its success count and its
\* failure count sum to k, its failure count is the number of the error
\* messages it collected, and its success count is the number of the test
\* cases it uploaded: those that were uploaded before the pass are not
\* counted.
C17_CountsOfThePass ==
    up.pc = "summarizing" =>
       /\ ReportedSuccessCount + up.failureCount = Len(up.casesToUpload)
       /\ up.failureCount = Len(up.errorMessages)
       /\ ReportedSuccessCount = LinkedInPass

\* C18: no two test cases of the collection have the same id.
C18_IdsAreUnique ==
    \A i, j \in DOMAIN testCases : testCases[i].id = testCases[j].id => i = j

\* C20: a test case with the upload status success has the content that was
\* sent in the creation request of its work item: the body the tracker holds
\* for its azureDevOpsId is the body of the test case as it is now. (Stated
\* for the collections without a repeated id.)
C20_SuccessHasTheContentSent ==
    C18_IdsAreUnique =>
       \A i \in DOMAIN testCases :
          testCases[i].uploadStatus = "success" =>
             /\ testCases[i].azureDevOpsId \in DOMAIN workItems
             /\ workItems[testCases[i].azureDevOpsId].body = workItemBody(testCases[i])

-----------------------------------------------------------------------------
(* Properties of the upload specification: the work items of a test case   *)
(* whose suite link failed                                                  *)

\* the entry is failed because its work item was created but not linked
LinkFailed(tc) ==
    /\ tc.uploadStatus = "failed"
    /\ tc.uploadError # NoError
    /\ tc.uploadError[1] = "created, but failed to add to Test Suite"

\* the work items the tracker holds with the body of the test case
WorkItemsOf(items, testCase) ==
    { k \in DOMAIN items : items[k].body = workItemBody(testCase) }

\* the creation request in flight is answered with success in this step
CreationSucceeds ==
    /\ up.pc = "creating"
    /\ requests' # requests
    /\ Succeeded(requests'[Len(requests)].status)

\* C21: an entry whose work item was created but not linked does not get
\* the id or the URL of that work item; the next pass takes it and sends a creation request for it,
\* which names no work item; and every creation that succeeds adds one work
\* item to those the tracker already holds for the test case, the suite
\* link that follows naming the new one: after m passes in which the
\* creation succeeded the tracker holds m work items of the test case.
C21_LinkFailureCreatesAgain ==
    [][/\ \A j \in DOMAIN testCases' :
             LinkFailed(testCases'[j]) =>
                /\ testCases'[j].azureDevOpsId # testCases'[j].uploadError[2]
                /\ testCases'[j].azureDevOpsUrl # WebUrl(testCases'[j].uploadError[2])
       /\ PassStarts =>
             /\ \A j \in DOMAIN testCases :
                   LinkFailed(testCases[j]) =>
                      \E k \in DOMAIN up'.casesToUpload : up'.casesToUpload[k] = testCases[j]
             /\ requests'[1] = CreateRequest(up'.casesToUpload[1])
       /\ \A i \in DOMAIN requests' :
             requests'[i].kind = "create" => requests'[i].workItemId = NoWorkItem
       /\ CreationSucceeds =>
             /\ Cardinality(WorkItemsOf(workItems', CurrentTestCase)) =
                   Cardinality(WorkItemsOf(workItems, CurrentTestCase)) + 1
             /\ WorkItemsOf(workItems, CurrentTestCase) \subseteq
                   WorkItemsOf(workItems', CurrentTestCase)
             /\ up'.createdWorkItem \notin DOMAIN workItems
             /\ requests'[Len(requests')].kind = "link"
             /\ requests'[Len(requests')].workItemId = up'.createdWorkItem
             /\ \A k \in DOMAIN workItems : workItems'[k] = workItems[k]]_vars

\* The only test case of the collection went through two passes in which
\* its creation succeeded and its suite link failed: the tracker holds two
\* work items with its body, neither of them in a suite, and the entry has
\* no tracker id.
C21_Witness ==
    /\ Len(testCases) = 1
    /\ LinkFailed(testCases[1])
    /\ testCases[1].uploadError[2] = 2
    /\ testCases[1].azureDevOpsId = NoWorkItem
    /\ WorkItemsOf(workItems, testCases[1]) = {1, 2}
    /\ \A k \in {1, 2} : workItems[k].suite = <<>>
    /\ up.pc = "summarizing"

-----------------------------------------------------------------------------
(* Properties of the merge-step specification: the upload fields after an  *)
(* append merge                                                            *)

\* C22: after an append merge every id of the existing generated entries
\* has one entry; when the id occurs in the batch that entry is pending
\* without tracker id, URL or upload error, whatever it was before, so that
\* the next pass takes it; when the id does not occur in the batch the
\* entry has the upload status, the tracker id and the URL it had.
C22_AppendResetsTheUploadOfBatchIds ==
    [][\A generated \in Batches :
         (GenerationReturns(generated) /\ gen.mode = "append") =>
            \A i \in DOMAIN testCases :
               IsNotManual(testCases[i]) =>
                  \E j \in DOMAIN testCases' :
                     /\ testCases'[j].id = testCases[i].id
                     /\ \A k \in DOMAIN testCases' :
                           testCases'[k].id = testCases[i].id => k = j
                     /\ IF OccursIn(generated, testCases[i].id)
                        THEN /\ testCases'[j].uploadStatus = "pending"
                             /\ testCases'[j].azureDevOpsId = NoWorkItem
                             /\ testCases'[j].azureDevOpsUrl = NoUrl
                             /\ testCases'[j].uploadError = NoError
                             /\ \E k \in DOMAIN CasesToUpload(testCases') :
                                   CasesToUpload(testCases')[k] = testCases'[j]
                        ELSE /\ testCases'[j].uploadStatus = testCases[i].uploadStatus
                             /\ testCases'[j].azureDevOpsId = testCases[i].azureDevOpsId
                             /\ testCases'[j].azureDevOpsUrl = testCases[i].azureDevOpsUrl]_vars

\* TC-POS-1 and TC-POS-2 were uploaded (the tracker holds their work items)
\* and an append merge of a batch with TC-POS-1 has ended: TC-POS-1 is
\* pending without a tracker id, TC-POS-2 is still success with its id.
C22_Witness ==
    /\ gen.pc = "idle" /\ gen.calls >= 1
    /\ Len(workItems) = 2
    /\ \E i, j \in DOMAIN testCases :
          /\ testCases[i].id = <<"TC-POS-", 1>>
          /\ testCases[i].uploadStatus = "pending"
          /\ testCases[i].azureDevOpsId = NoWorkItem
          /\ testCases[i].azureDevOpsUrl = NoUrl
          /\ \E k \in DOMAIN workItems :
                workItems[k].body.title[1] = <<"TC-POS-", 1>>
          /\ testCases[j].id = <<"TC-POS-", 2>>
          /\ testCases[j].uploadStatus = "success"
          /\ testCases[j].azureDevOpsId \in DOMAIN workItems
          /\ workItems[testCases[j].azureDevOpsId].body = workItemBody(testCases[j])

-----------------------------------------------------------------------------
(* Properties of the upload specification: an upload that is refused       *)

\* the text is empty or only white space
IsBlank(text) == \A i \in DOMAIN text : IsSpace(text[i])

\* one of the first three checks of handleUploadTestCases fails
\* (page.tsx:257, 266, 270)
UploadIsRefused ==
    \/ credentials # "ok"
    \/ userStory = NoStory
    \/ IsBlank(testPlanId)
    \/ IsBlank(testSuiteId)

\* C23: with missing or incomplete credentials, without a story, or with a
\* plan id or a suite id that is empty or only white space, a click on the
\* upload button changes nothing: no request is issued, no work item is
\* created, every upload status, the uploading flag and the list of the ids
\* in flight are what they were; and while this is so no step issues a
\* request.
C23_RefusedUploadChangesNothing ==
    [][UploadIsRefused =>
          /\ handleUploadTestCases =>
                /\ testCases' = testCases
                /\ isUploadingTests' = isUploadingTests
                /\ uploadingTestCaseIds' = uploadingTestCaseIds
                /\ up' = up
          /\ requests' = requests
          /\ workItems' = workItems
          /\ ~isUploadingTests'
          /\ uploadingTestCaseIds' = <<>>]_vars

\* The upload button can be clicked with test cases to upload and complete
\* credentials, the plan id is only white space, and nothing was sent.
C23_Witness ==
    /\ PageIsInteractive
    /\ UploadButtonEnabled
    /\ credentials = "ok"
    /\ testPlanId = <<" ">>
    /\ testSuiteId = <<"7">>
    /\ CasesToUpload(testCases) # <<>>
    /\ requests = <<>>
    /\ workItems = <<>>
    /\ ~isUploadingTests

-----------------------------------------------------------------------------
(* The call specification: the generation call of the page together with   *)
(* the invocation of generateTestCases it awaits, over the collections of  *)
(* the merge-step specification and with the key of the model service set  *)
(* or not.                                                                 *)

InitCall ==
    /\ credentials = "ok"
    /\ isFetchingStory = FALSE
    /\ processedDocuments = <<>>
    /\ userStory = 1
    /\ \E entries \in SubSequences(StepInitEntries), uploaded \in StepUploadedIds :
         LET after == UploadedInOrder(entries, 1, uploaded, entries, <<>>)
         IN  /\ testCases = after.testCases
             /\ workItems = after.workItems
             /\ manualTestCaseCounter =
                    IF \E i \in DOMAIN entries : entries[i].id = ManualId(2) THEN 3
                    ELSE IF \E i \in DOMAIN entries : entries[i].id = ManualId(1) THEN 2
                    ELSE 1
    /\ isGeneratingTests = TRUE
    /\ isUploadingTests = FALSE
    /\ uploadingTestCaseIds = <<>>
    /\ testPlanId = <<"7">>
    /\ testSuiteId = <<"9">>
    /\ isGenerateConfirmationOpen = FALSE
    /\ \E mode \in {"append", "override"} :
         gen = [pc |-> "inflight", mode |-> mode, calls |-> 1, story |-> 1]
    /\ up = IdleUp
    /\ requests = <<>>
    /\ \E apiKeySet \in BOOLEAN : g = IdleG(apiKeySet)
    /\ fn = IdleFn

\* await generateTestCases(aiInput) (page.tsx:143): the server action is
\* invoked; it checks its input again, whatever the caller built
AwaitedCallStarts(input) ==
    /\ gen.pc = "inflight"
    /\ g.pc = "idle"
    /\ generateTestCases(input)

\* the awaited call resolved with validationResult.data (page.tsx:143-162)
AwaitedCallReturns ==
    /\ g.pc = "returned"
    /\ GenerationReturns(g.data)

\* the awaited call rejected (page.tsx:163-169)
AwaitedCallThrows ==
    /\ g.pc = "threw"
    /\ GenerationThrows

NextCall ==
    \/ \E input \in Inputs : AwaitedCallStarts(input)
    \/ \E content \in ResponseContents : ModelResponds(content)
    \/ \E rejection \in Rejections : ModelRejects(rejection)
    \/ AwaitedCallReturns
    \/ AwaitedCallThrows

SpecCall == InitCall /\ [][NextCall]_vars

-----------------------------------------------------------------------------
(* Properties of the call specification *)

\* the reasons generateTestCases fails for
FailureReasons ==
    {"api-key-not-set", "invalid-input", "anthropic-api-error", "upstream-error",
     "unknown-error", "empty-content", "parse-failure", "schema-mismatch"}

\* C24: from the call of generateTestCases to the end of the generation the
\* collection does not change when the call fails, for whatever reason and
\* in append as in replace mode: no step of the invocation changes it, the
\* step that handles the failure leaves it as it is and sets the generating
\* flag to false, and a failed invocation never ends in a merge.
C24_FailedGenerationChangesNothing ==
    [][/\ (gen.pc = "inflight" /\ gen'.pc = "inflight") =>
             /\ testCases' = testCases
             /\ isGeneratingTests'
       /\ (gen.pc = "inflight" /\ g.pc = "threw" /\ gen'.pc = "idle") =>
             /\ g.error \in FailureReasons
             /\ gen.mode \in {"append", "override"}
             /\ testCases' = testCases
             /\ ~isGeneratingTests'
       /\ (gen.pc = "inflight" /\ gen'.pc = "idle" /\ testCases' # testCases) =>
             g.pc = "returned" /\ g.error = "none"]_vars

\* The response of the model did not match the schema and the page handled
\* the failure: the generation has ended, the flag is false, and the
\* collection still holds its uploaded entry and its manual entry.
C24_Witness ==
    /\ gen.pc = "idle" /\ gen.calls = 1
    /\ g.pc = "threw"
    /\ g.error = "schema-mismatch"
    /\ ~isGeneratingTests
    /\ Len(workItems) = 1
    /\ \E i, j \in DOMAIN testCases :
          /\ testCases[i].uploadStatus = "success"
          /\ testCases[i].azureDevOpsId = 1
          /\ testCases[j] = NewManualTestCase(1)

-----------------------------------------------------------------------------
(* Properties of the session specification: the end of an upload pass      *)

\* the loop of the running pass ends in this step (page.tsx:317)
PassEnds == isUploadingTests /\ ~isUploadingTests'

\* the entry carries the outcome of an upload attempt
IsSettled(tc) ==
    \/ /\ tc.uploadStatus = "success"
       /\ tc.azureDevOpsId # NoWorkItem
       /\ tc.azureDevOpsUrl = WebUrl(tc.azureDevOpsId)
       /\ tc.uploadError = NoError
    \/ /\ tc.uploadStatus = "failed"
       /\ tc.uploadError # NoError

\* C25 (what holds when a pass ends): the uploading flag is false, no id is
\* in flight, and every test case of the pass that is still in the
\* collection is success with tracker id and URL and without upload error,
\* or failed with its upload error; the end of the summary, whether it
\* succeeded or failed, changes none of these. (Stated for the collections
\* without a repeated id.)
C25_PassEndsWithEveryAttemptSettled ==
    [][/\ (PassEnds /\ DistinctIds(up.testCases) /\ DistinctIds(testCases')) =>
             /\ uploadingTestCaseIds' = <<>>
             /\ \A j \in DOMAIN testCases' :
                   Includes(IdsOf(up.casesToUpload), testCases'[j].id) =>
                      IsSettled(testCases'[j])
       /\ (up.pc = "summarizing" /\ up'.pc = "idle") =>
             /\ testCases' = testCases
             /\ isUploadingTests' = isUploadingTests
             /\ uploadingTestCaseIds' = uploadingTestCaseIds]_vars

\* The upload specification with every tracker request answered in the
\* end: fetch resolves or rejects (azure-devops-api.ts:183, 221).
SpecUploadFair ==
    /\ SpecUpload
    /\ WF_vars(\E status \in CreateStatuses : CreateResponds(status))
    /\ WF_vars(\E status \in LinkStatuses : LinkResponds(status))

\* C25 (termination): when every request is answered in the end, every pass
\* ends.
C25_EveryPassEnds == isUploadingTests ~> ~isUploadingTests

-----------------------------------------------------------------------------
(* The fetch specification: from the page after its construction, with the *)
(* credentials the storage held, stories are fetched, documents are        *)
(* attached, test cases are generated, added and deleted, and the user     *)
(* logs out and in.                                                        *)

InitFetch ==
    /\ credentials \in {"ok", "incomplete"}
    /\ isFetchingStory = FALSE
    /\ processedDocuments = <<>>
    /\ userStory = NoStory
    /\ testCases = <<>>
    /\ manualTestCaseCounter = 1
    /\ isGeneratingTests = FALSE
    /\ isUploadingTests = FALSE
    /\ uploadingTestCaseIds = <<>>
    /\ testPlanId = <<>>
    /\ testSuiteId = <<>>
    /\ isGenerateConfirmationOpen = FALSE
    /\ gen = IdleGen
    /\ up = IdleUp
    /\ workItems = <<>>
    /\ requests = <<>>
    /\ g = IdleG(TRUE)
    /\ fn = IdleFn

NextFetch ==
    \/ handleFetchStory
    \/ \E story \in Stories : FetchReturns(story)
    \/ \E authenticationFailed \in BOOLEAN : FetchThrows(authenticationFailed)
    \/ handleLogOut
    \/ handleAuthentication
    \/ \E file \in Files : handleFileChange(file)
    \/ \E file \in Files, status \in {"success", "error"} : FileProcessed(file, status)
    \/ handleGenerateTestCases
    \/ CancelGenerateConfirmation
    \/ \E mode \in {"append", "override"} : ConfirmGenerate(mode)
    \/ \E generated \in SessionBatches : GenerationReturns(generated)
    \/ GenerationThrows
    \/ AddManualTestCase(MaxSessionManual)
    \/ \E i \in DOMAIN testCases : handleDeleteTestCase(i)

SpecFetch == InitFetch /\ [][NextFetch]_vars

-----------------------------------------------------------------------------
(* Properties of the fetch specification *)

\* the entry is one that handleAddManualTestCase built
IsAddedManually(tc) == \E n \in 1..MaxSessionManual : tc = NewManualTestCase(n)

\* C26: the counter changes only by one step up, when a manual test case
\* is added, which gets the id MANUAL- and the counter's value, or back to
\* 1, and then the collection is emptied in the same step; so the n-th
\* manual test case added since the collection was last emptied has the id
\* MANUAL-n, the manual test cases of the collection have ids below the
\* counter that grow in the order of the collection, and the id of a
\* deleted one is not given again.
C26_ManualIdsCountUp ==
    [][LET n == manualTestCaseCounter
           added == SelectSeq(testCases', IsAddedManually)
       IN  /\ manualTestCaseCounter' \in {n, n + 1, 1}
           /\ manualTestCaseCounter' = n + 1 <=>
                 testCases' = Append(testCases, NewManualTestCase(n))
           /\ manualTestCaseCounter' < n =>
                 /\ manualTestCaseCounter' = 1
                 /\ testCases' = <<>>
           /\ \A i \in DOMAIN added :
                 /\ added[i].id[2] < manualTestCaseCounter'
                 /\ \A j \in DOMAIN added : i < j => added[i].id[2] < added[j].id[2]]_vars

\* In a session of story 2 three manual test cases were added
\* and the first was deleted: the collection holds MANUAL-2 and MANUAL-3,
\* and the next id is MANUAL-4.
C26_Witness ==
    /\ userStory = 2
    /\ testCases = <<NewManualTestCase(2), NewManualTestCase(3)>>
    /\ manualTestCaseCounter = 4

\* a fetch request is sent in this step
FetchStarts == ~isFetchingStory /\ isFetchingStory'

\* the fetch in flight fails in this step
FetchFails == isFetchingStory /\ ~isFetchingStory' /\ userStory' = NoStory

\* C30: a fetch is started with complete credentials only, and the step
\* that sends the request unsets the story, empties the collection, sets
\* the manual counter to 1 and empties the processed documents; no story is
\* loaded while the fetch is in flight; the step in which the fetch fails
\* leaves the story unset and the collection, the counter and the documents
\* as they are; and a fetch asked for with incomplete credentials changes
\* none of them and sends nothing.
C30_FetchClearsTheSession ==
    [][/\ FetchStarts =>
             /\ credentials = "ok"
             /\ userStory' = NoStory
             /\ testCases' = <<>>
             /\ manualTestCaseCounter' = 1
             /\ processedDocuments' = <<>>
       /\ isFetchingStory => userStory = NoStory
       /\ FetchFails =>
             /\ userStory = NoStory
             /\ testCases' = testCases
             /\ manualTestCaseCounter' = manualTestCaseCounter
             /\ processedDocuments' = processedDocuments
       /\ (handleFetchStory /\ credentials # "ok") =>
             /\ ~isFetchingStory'
             /\ userStory' = userStory
             /\ testCases' = testCases
             /\ manualTestCaseCounter' = manualTestCaseCounter
             /\ processedDocuments' = processedDocuments]_vars

\* After a session in which test cases were generated, a fetch was started
\* with complete credentials and is in flight: no story, no test case, no
\* document, and the counter is 1.
C30_Witness ==
    /\ isFetchingStory
    /\ credentials = "ok"
    /\ gen.pc = "idle" /\ gen.calls >= 1
    /\ userStory = NoStory
    /\ testCases = <<>>
    /\ manualTestCaseCounter = 1
    /\ processedDocuments = <<>>


-----------------------------------------------------------------------------
(* Step extraction and the markers it removes *)

\* a line that starts with digits and a period followed by whitespace
HasSpacedMarker(line) ==
    LET rest == SkipDigits(line)
    IN /\ line # <<>> /\ IsDigit(Head(line))
       /\ Len(rest) >= 2 /\ rest[1] = "." /\ IsSpace(rest[2])

\* a line that starts with digits and a period
HasDottedDigits(line) ==
    LET rest == SkipDigits(line)
    IN line # <<>> /\ IsDigit(Head(line)) /\ rest # <<>> /\ Head(rest) = "."

\* a line without its marker of digits, period and space
WithoutSpacedMarker(line) ==
    IF HasSpacedMarker(line) THEN Tail(Tail(SkipDigits(line))) ELSE line

\* the lines of a description, trimmed, without their markers of digits,
\* period and space, trimmed again, the empty ones dropped
LinesWithoutSpacedMarkers(description) ==
    LET lines == Split(Trim(description), "\n")
        steps == [i \in 1..Len(lines) |-> Trim(WithoutSpacedMarker(Trim(lines[i])))]
    IN SelectSeq(steps, LAMBDA step : Len(step) > 0)

\* the actions of the steps of the body
StepActions == [k \in 1..Len(StepsElement.steps) |-> StepsElement.steps[k].action]

\* C27: the steps of the body built for a description are, in line order,
\* its trimmed lines without a leading marker of digits, period and space,
\* trimmed again, the empty ones dropped; a line that starts with digits and
\* a period not followed by whitespace, as "3.14 seconds", keeps its text.
C27_OnlySpacedMarkersAreStripped ==
    BodyBuilt =>
      LET lines == LinesWithoutSpacedMarkers(fn.args.description)
      IN /\ lines # <<>> =>
              /\ Len(StepsOperations) = 1
              /\ StepsOperations[1].value # NoStepsXml
              /\ StepActions = [k \in 1..Len(lines) |-> prepareContentForXml(lines[k])]
         /\ fn.args.description = <<"3", ".", "1", "4", " seconds">> =>
              StepActions = << <<"3", ".", "1", "4", " seconds">> >>

\* The part of C27 about the lines whose digits and period, if any, are
\* followed by whitespace: their steps are the trimmed lines without the
\* marker, in line order, the empty ones dropped.
C27_SpacedMarkersAreStripped ==
    BodyBuilt =>
      LET trimmed == Split(Trim(fn.args.description), "\n")
          lines == LinesWithoutSpacedMarkers(fn.args.description)
      IN (/\ lines # <<>>
          /\ \A i \in 1..Len(trimmed) :
                HasDottedDigits(Trim(trimmed[i])) => HasSpacedMarker(Trim(trimmed[i]))) =>
              /\ Len(StepsOperations) = 1
              /\ StepsOperations[1].value # NoStepsXml
              /\ StepActions = [k \in 1..Len(lines) |-> prepareContentForXml(lines[k])]


-----------------------------------------------------------------------------
(* The entities htmlToPlainText decodes: the normalizer for every input of  *)
(* up to MaxEntities pieces of the set below.                               *)

MaxEntities == 3

Apostrophe == "'"
AposReference == <<"&", "a", "p", "o", "s", ";">>
NumericApostrophe == <<"&", "#", "3", "9", ";">>
AmpReference == <<"&", "a", "m", "p", ";">>

\* the pieces an input is made of: text, entity references, a tag
EntityPieces ==
    { <<"a">>,
      <<"<p>">>,
      <<"&", "n", "b", "s", "p", ";">>,
      AmpReference,
      <<"&", "l", "t", ";">>,
      <<"&", "g", "t", ";">>,
      <<"&", "q", "u", "o", "t", ";">>,
      AposReference,
      NumericApostrophe,
      <<"&", "c", "o", "p", "y", ";">>,
      <<"l", "t", ";">> }

EntityInputs == { Flatten(pieces) : pieces \in SeqsUpTo(EntityPieces, MaxEntities) }

InitDecode ==
    /\ credentials = "ok"
    /\ isFetchingStory = FALSE
    /\ processedDocuments = <<>>
    /\ userStory = NoStory
    /\ testCases = <<>>
    /\ manualTestCaseCounter = 1
    /\ isGeneratingTests = FALSE
    /\ isUploadingTests = FALSE
    /\ uploadingTestCaseIds = <<>>
    /\ testPlanId = <<>>
    /\ testSuiteId = <<>>
    /\ isGenerateConfirmationOpen = FALSE
    /\ gen = IdleGen
    /\ up = IdleUp
    /\ workItems = <<>>
    /\ requests = <<>>
    /\ g = IdleG(TRUE)
    /\ \E html \in EntityInputs : fn = Called("htmlToPlainText", html)

NextDecode == NormalizeHtml

SpecDecode == InitDecode /\ [][NextDecode]_vars

\* the six entities with the reference of the apostrophe given, and their
\* characters
SixEntities(apostrophe) ==
    { <<<<"&", "n", "b", "s", "p", ";">>, " ">>,
      <<AmpReference, "&">>,
      <<<<"&", "l", "t", ";">>, "<">>,
      <<<<"&", "g", "t", ";">>, ">">>,
      <<<<"&", "q", "u", "o", "t", ";">>, "\"">>,
      <<apostrophe, Apostrophe>> }

\* the text with each occurrence of an entity of the set decoded once, from
\* left to right, and the rest as it is
RECURSIVE DecodedOnce(_, _)
DecodedOnce(text, entities) ==
    IF text = <<>> THEN <<>>
    ELSE IF \E e \in entities : OccursAt(e[1], text, 1)
         THEN LET e == CHOOSE e \in entities : OccursAt(e[1], text, 1)
              IN <<e[2]>> \o DecodedOnce(SubSeq(text, Len(e[1]) + 1, Len(text)), entities)
         ELSE <<Head(text)>> \o DecodedOnce(Tail(text), entities)

\* the output holds the text segments of the input in its order, each with
\* the entities of the set decoded once, and nothing else but layout
SegmentsDecodedOnce(html, text, entities) ==
    LET segments == TextSegments(html)
    IN WithoutLayout(text) =
          WithoutLayout(Flatten([i \in DOMAIN segments |->
                                    DecodedOnce(segments[i], entities)]))

\* C28: the output of htmlToPlainText holds the text of the input with each
\* occurrence of the six entities nbsp, amp, lt, gt, quot and apos (&apos;)
\* decoded once to its character, and every other entity reference as it
\* is: "&amp;lt;" gives "&lt;" and "&apos;" gives the apostrophe.
C28_SixEntitiesDecodedOnce ==
    Normalized =>
       /\ SegmentsDecodedOnce(fn.args, fn.result, SixEntities(AposReference))
       /\ fn.args = AmpReference \o <<"l", "t", ";">> =>
             fn.result = <<"&", "l", "t", ";">>
       /\ fn.args = AposReference => fn.result = <<Apostrophe>>

\* The part of C28 that holds: with the numeric reference &#39; as the
\* reference of the apostrophe, the output of an input without the
\* reference of the ampersand holds the text of the input with each
\* occurrence of the six entities decoded once, and every other reference,
\* &apos; among them, as it is.
C28_DecodedOnceWithoutAmpersand ==
    (Normalized /\ ~Contains(fn.args, AmpReference)) =>
       /\ SegmentsDecodedOnce(fn.args, fn.result, SixEntities(NumericApostrophe))
       /\ fn.args = AposReference => fn.result = AposReference


-----------------------------------------------------------------------------
(* The CSV export: handleDownloadCsv (page.tsx:208-253).  The content is    *)
(* the sequence of its characters; the commas, the quotation marks and the  *)
(* newlines are characters of their own.                                    *)

MaxCsvCases == 2
MaxCsvLines == 2

Comma == ","
Quote == "\""
Newline == "\n"

\* a variant of escapeCsvValue that writes the value as it is
CsvValueAsItIs(value) == IF value = Undefined THEN <<>> ELSE value

\* escapeCsvValue (page.tsx:208-215)
escapeCsvValue(value) ==
    IF value = Undefined THEN <<>>
    ELSE IF \E k \in DOMAIN value : value[k] \in {Comma, Newline, Quote}
         THEN <<Quote>> \o ReplaceAll(value, Quote, <<Quote, Quote>>) \o <<Quote>>
         ELSE value

\* the first line of the content (page.tsx:223)
CsvHeader ==
    <<"Work Item Type", Comma, "Title", Comma, "Step Action", Comma,
      "Step Expected Result", Newline>>

\* the steps of a test case (page.tsx:226)
CsvSteps(description) ==
    LET lines == Split(description, Newline)
        steps == [k \in 1..Len(lines) |-> Trim(StripStepMarker(lines[k]))]
    IN SelectSeq(steps, LAMBDA step : step # <<>>)

\* one line of the content (page.tsx:229, 235)
CsvLine(workItemType, title, step, expectedResult) ==
    escapeCsvValue(workItemType) \o <<Comma>> \o escapeCsvValue(title) \o <<Comma>>
       \o escapeCsvValue(step) \o <<Comma>> \o escapeCsvValue(expectedResult)
       \o <<Newline>>

\* the lines written for one test case (page.tsx:225-238)
CsvLinesOf(tc) ==
    LET steps == CsvSteps(tc.description)
    IN IF Len(steps) = 0
       THEN CsvLine(<<"Test Case">>, tc.title, <<>>, tc.expectedResult)
       ELSE Flatten([index \in 1..Len(steps) |->
               LET workItemType == IF index = 1 THEN <<"Test Case">> ELSE <<>>
                   title == IF index = 1 THEN tc.title ELSE <<>>
                   expectedResult == IF index = Len(steps) THEN tc.expectedResult ELSE <<>>
               IN CsvLine(workItemType, title, steps[index], expectedResult)])

\* csvContent (page.tsx:223-238)
CsvContent(cases) ==
    CsvHeader \o Flatten([k \in DOMAIN cases |-> CsvLinesOf(cases[k])])

\* handleDownloadCsv (page.tsx:217-253), in a browser that supports the
\* download attribute: the content handed to the download
handleDownloadCsv ==
    /\ Len(testCases) # 0
    /\ fn.pc = "idle"
    /\ fn' = [pc |-> "returned", name |-> "handleDownloadCsv", args |-> <<>>,
              result |-> CsvContent(testCases)]
    /\ UNCHANGED <<uiVars, gen, up, trackerVars, g>>

\* the lines the descriptions of the exported test cases are made of
CsvLineTexts ==
    { <<"1", ".", " ", "Click", Comma, " ", Quote, "ok", Quote>>,
      <<" ">> }

CsvDescriptions ==
    { Join(lines, <<Newline>>) : lines \in SeqsUpTo(CsvLineTexts, MaxCsvLines) }

CsvCase(title, description, expectedResult) ==
    AsPending(GeneratedCase(<<"TC-POS-", 1>>,
                [title |-> title, priority |-> "Medium",
                 description |-> description, expectedResult |-> expectedResult]))

TwoStepDescription ==
    <<"1", ".", " ", "Open page", Newline, "Click button">>

\* the exported test cases: every description with one title and expected
\* result, and every title and expected result with one description
CsvCases ==
    { CsvCase(<<"Login works">>, description, <<"Page loads">>) :
         description \in CsvDescriptions }
    \cup { CsvCase(title, TwoStepDescription, expectedResult) :
              title \in { <<"Login works">>, <<"Login", Comma, " ", Quote, "again", Quote>> },
              expectedResult \in { <<>>, <<"Page loads", Newline, "User is shown">> } }

InitCsv ==
    /\ credentials = "ok"
    /\ isFetchingStory = FALSE
    /\ processedDocuments = <<>>
    /\ userStory = 1
    /\ testCases \in SeqsUpTo(CsvCases, MaxCsvCases)
    /\ manualTestCaseCounter = 1
    /\ isGeneratingTests = FALSE
    /\ isUploadingTests = FALSE
    /\ uploadingTestCaseIds = <<>>
    /\ testPlanId = <<>>
    /\ testSuiteId = <<>>
    /\ isGenerateConfirmationOpen = FALSE
    /\ gen = IdleGen
    /\ up = IdleUp
    /\ workItems = <<>>
    /\ requests = <<>>
    /\ g = IdleG(TRUE)
    /\ fn = IdleFn

NextCsv == handleDownloadCsv

SpecCsv == InitCsv /\ [][NextCsv]_vars

-----------------------------------------------------------------------------
(* Properties of the CSV export *)

\* the position of the quotation mark that closes the value opened by the
\* mark at position 1: the first mark from position 2 on that is not the
\* first or the second mark of a doubled one
ClosingQuote(rest) ==
    CHOOSE j \in 2..Len(rest) :
       LET Closes(k) ==
              /\ rest[k] = Quote
              /\ Cardinality({m \in 2..k : rest[m] = Quote}) % 2 = 1
              /\ (k = Len(rest) \/ rest[k + 1] # Quote)
       IN Closes(j) /\ \A k \in 2..(j - 1) : ~Closes(k)

\* the position after the value that starts a text without quotation marks
\* around it: the position of the first comma or newline, or of the end
EndOfPlainValue(rest) ==
    IF \E j \in 1..Len(rest) : rest[j] \in {Comma, Newline}
    THEN CHOOSE j \in 1..Len(rest) :
            /\ rest[j] \in {Comma, Newline}
            /\ \A k \in 1..(j - 1) : rest[k] \notin {Comma, Newline}
    ELSE Len(rest) + 1

\* The rows of a CSV text, each the sequence of the values of its columns:
\* a value in quotation marks runs to its closing mark, with a doubled mark
\* standing for one mark, and may hold commas and newlines.
RECURSIVE CsvRows(_, _, _)
CsvRows(rest, row, rows) ==
    IF rest = <<>> THEN (IF row = <<>> THEN rows ELSE Append(rows, row))
    ELSE LET quoted == Head(rest) = Quote
             end == IF quoted THEN ClosingQuote(rest) + 1 ELSE EndOfPlainValue(rest)
             value == IF quoted
                      THEN ReplaceEach(SubSeq(rest, 2, end - 2), <<Quote, Quote>>, <<Quote>>)
                      ELSE SubSeq(rest, 1, end - 1)
             after == SubSeq(rest, end + 1, Len(rest))
         IN IF end <= Len(rest) /\ rest[end] = Comma
            THEN CsvRows(after, Append(row, value), rows)
            ELSE CsvRows(after, <<>>, Append(rows, Append(row, value)))

\* the content has been handed to the download
Downloaded == fn.pc = "returned" /\ fn.name = "handleDownloadCsv"

\* the rows of the downloaded content after the header row
DownloadedRows ==
    LET rows == CsvRows(fn.result, <<>>, <<>>)
    IN SubSeq(rows, 2, Len(rows))

\* the number of rows of a test case
RowCount(tc) ==
    IF Len(CsvSteps(tc.description)) = 0 THEN 1 ELSE Len(CsvSteps(tc.description))

\* the number of rows of the first k test cases of the collection
RECURSIVE RowsBefore(_)
RowsBefore(k) == IF k = 0 THEN 0 ELSE RowsBefore(k - 1) + RowCount(testCases[k])

\* C29: the downloaded content has, after the header, the rows of the test
\* cases in collection order, four columns each. A test case with n >= 1
\* steps has exactly n rows, row k with step k as its step action, the work
\* item type "Test Case" and the title on the first row and empty on the
\* others, the expected result on the last row and empty on the others. A
\* test case without steps has exactly one row, with the work item type,
\* its title, an empty step action and its expected result.
C29_RowsOfTheExport ==
    Downloaded =>
       LET rows == DownloadedRows
       IN /\ Len(rows) = RowsBefore(Len(testCases))
          /\ \A r \in DOMAIN rows : Len(rows[r]) = 4
          /\ \A i \in DOMAIN testCases :
                LET tc == testCases[i]
                    steps == CsvSteps(tc.description)
                    n == Len(steps)
                    first == RowsBefore(i - 1)
                IN /\ n >= 1 =>
                        \A k \in 1..n :
                           /\ first + k \in DOMAIN rows
                           /\ rows[first + k] =
                                 << IF k = 1 THEN <<"Test Case">> ELSE <<>>,
                                    IF k = 1 THEN tc.title ELSE <<>>,
                                    steps[k],
                                    IF k = n THEN tc.expectedResult ELSE <<>> >>
                   /\ n = 0 =>
                        /\ first + 1 \in DOMAIN rows
                        /\ rows[first + 1] =
                              << <<"Test Case">>, tc.title, <<>>, tc.expectedResult >>

\* A test case of two steps whose title holds a comma and quotation marks
\* and whose expected result holds a newline has been exported, followed by
\* a test case without steps.
C29_Witness ==
    /\ Downloaded
    /\ Len(testCases) = 2
    /\ testCases[1].description = TwoStepDescription
    /\ testCases[1].title = <<"Login", Comma, " ", Quote, "again", Quote>>
    /\ testCases[1].expectedResult = <<"Page loads", Newline, "User is shown">>
    /\ CsvSteps(testCases[2].description) = <<>>
    /\ Len(DownloadedRows) = 3
    /\ DownloadedRows[2] =
          << <<>>, <<>>, <<"Click button">>, <<"Page loads", Newline, "User is shown">> >>

=============================================================================
